---- MODULE Spec2Model ----
(***************************************************************************)
(* Inbound SMTP DATA-phase acceptance pipeline (Session::queue_message)    *)
(* of crates/smtp/src/inbound/data.rs, as a state machine with one step    *)
(* per pipeline stage.  Bytes are sequences of string tokens; the byte     *)
(* length of a sequence is the sum of the lengths of its tokens.           *)
(* The queue managers that deliver what the pipeline hands to the queue    *)
(* are modelled after the pipeline.                                        *)
(***************************************************************************)
EXTENDS Integers, Sequences, FiniteSets, TLC

VARIABLES
    core,          \* self.server.core: the configuration, fixed after startup
    queue_id_gen,  \* self.server.inner.data.queue_id_gen
    store,         \* the queue store: the messages handed to Message::queue that were persisted
    quota_calls,   \* the calls made to has_quota: queue id and message.size at the call
    report_queue,  \* DKIM failure / DMARC aggregate reports handed to the report channel
    analyzed,      \* sessions whose message was handed to analyze_report
    data,          \* self.data of every session
    state,         \* self.state of every session
    pc,            \* the stage of queue_message every session is about to run
    reply,         \* the value returned by queue_message, NoneV while it runs
    trace,         \* the stages every session has run, in order
    local,         \* the local variables of queue_message of every session
    events,        \* the queue store: the QueueClass::MessageEvent entries
    blobs,         \* the blob store: the queue ids whose message body is linked
    queue_tx,      \* the queue ids whose handoff published QueueEvent::Refresh
    wake,          \* the Refresh events waiting in the channel of every queue manager
    refreshed,     \* the number of Refresh events sent to the queue managers so far
    snapshot,      \* the due events every queue manager read and has yet to try to lock
    in_flight,     \* the events every queue manager holds the lock of
    remote,        \* the messages the remote host received, with their number
    gate           \* what can_send_data returned and wrote in every session

handoff_vars == <<events, blobs, queue_tx>>
manager_vars == <<wake, refreshed, snapshot, in_flight, remote>>

vars == <<core, queue_id_gen, store, quota_calls, report_queue, analyzed,
          data, state, pc, reply, trace, local, handoff_vars, manager_vars,
          gate>>

-----------------------------------------------------------------------------
(* Bounds *)

NumSessions == 2
MaxSigs == 2
MaxMods == 1
MaxSigners == 2
NumManagers == 2
MaxRefresh == 1

Sessions == 1..NumSessions
Managers == 1..NumManagers

-----------------------------------------------------------------------------
(* Values *)

NoneV == "nil"          \* Option::None of a value modelled as a string
NoneOpt == <<>>         \* Option::None of any other value
SomeOpt(x) == <<x>>     \* Option::Some of any other value
CRLF == "\r\n"

RECURSIVE ByteLen(_)
ByteLen(bytes) ==
    IF bytes = <<>> THEN 0 ELSE Len(Head(bytes)) + ByteLen(Tail(bytes))

RECURSIVE SeqsUpTo(_, _)
SeqsUpTo(S, n) ==
    IF n = 0 THEN {<<>>}
    ELSE LET shorter == SeqsUpTo(S, n - 1)
         IN shorter \cup {Append(q, x) : q \in {r \in shorter : Len(r) = n - 1}, x \in S}

Merge(r, upd) == [k \in DOMAIN r |-> IF k \in DOMAIN upd THEN upd[k] ELSE r[k]]

Last(q) == q[Len(q)]

HexDigit(d, upper) ==
    IF d < 10 THEN <<"0", "1", "2", "3", "4", "5", "6", "7", "8", "9">>[d + 1]
    ELSE IF upper THEN <<"A", "B", "C", "D", "E", "F">>[d - 9]
    ELSE <<"a", "b", "c", "d", "e", "f">>[d - 9]

RECURSIVE Hex(_, _)
Hex(n, upper) ==
    IF n < 16 THEN <<HexDigit(n, upper)>>
    ELSE Append(Hex(n \div 16, upper), HexDigit(n % 16, upper))

-----------------------------------------------------------------------------
(* Replies *)

ReplyParseFailed == <<"550 5.7.7 Failed to parse message.", CRLF>>
ReplyLoop == <<"450 4.4.6 Too many Received headers. Possible loop detected.", CRLF>>
ReplyDkimTemp == <<"451 4.7.20 No passing DKIM signatures found.", CRLF>>
ReplyDkimPerm == <<"550 5.7.20 No passing DKIM signatures found.", CRLF>>
ReplyArcTemp == <<"451 4.7.29 ARC validation failed.", CRLF>>
ReplyArcPerm == <<"550 5.7.29 ARC validation failed.", CRLF>>
ReplyDmarcTemp == <<"451 4.7.1 Email temporarily rejected per DMARC policy.", CRLF>>
ReplyDmarcPerm == <<"550 5.7.1 Email rejected per DMARC policy.", CRLF>>
ReplyQueuedForDelivery == <<"250 2.0.0 Message queued for delivery.", CRLF>>
ReplySpam == <<"550 5.7.1 Message rejected due to excessive spam score.", CRLF>>
ReplyQueuedUpper(queue_id) ==
    <<"250 2.0.0 Message queued with id ">> \o Hex(queue_id, TRUE) \o <<".", CRLF>>

\* format!("250 2.0.0 Message queued with id {queue_id:x}.\r\n")
ReplyQueued(queue_id) ==
    <<"250 2.0.0 Message queued with id ">> \o Hex(queue_id, FALSE) \o <<".", CRLF>>
ReplyUnable == <<"451 4.3.5 Unable to accept message at this time.", CRLF>>
ReplyFullNoCrlf == <<"452 4.3.1 Mail system full, try again later.">>

ReplyFull == <<"452 4.3.1 Mail system full, try again later.", CRLF>>

-----------------------------------------------------------------------------
(* Configuration: every key holds the set of values its expression can     *)
(* evaluate to for a session (a constant key holds one value).             *)

EvalIf(key) == core[key]

UnwrapOr(v, default) == IF v = NoneV THEN default ELSE v

UnwrapOrTrue(v) == IF v = NoneV THEN TRUE ELSE v = "true"

DefaultMaxReceivedHeaders == 50

VerifyStrategy == {"Relaxed", "Strict", "Disable"}

Verifies(strategy) == strategy \in {"Strict", "Relaxed"}

IsStrict(strategy) == strategy = "Strict"

OptBool == {NoneV, "true", "false"}

SignerLists == {SomeOpt(q) : q \in SeqsUpTo({"rsa", "unknown"}, MaxSigners)}

\* queue.strategy.schedule: an expression over the envelope of a recipient,
\* here `if rcpt == <rcpt> then <then> else <else>`; None is an expression
\* that yields nothing
NoStrategy == [rcpt |-> NoneV, then |-> NoneV, else |-> NoneV]

\* queue.virtual / queue.schedule: no queue is configured
NoQueues == <<>>

\* Every verification strategy is an expression; no rewriter is configured.
CoreAuth ==
    [ max_messages |-> {NoneOpt},
      max_received_headers |-> {NoneOpt, SomeOpt(1)},
      dkim_verify |-> {NoneV} \cup VerifyStrategy,
      dmarc_verify |-> {NoneV} \cup VerifyStrategy,
      arc_verify |-> {NoneV} \cup VerifyStrategy,
      arc_seal |-> {NoneV, "sealer"},
      dkim_send |-> {NoneV},
      analysis_forward |-> BOOLEAN,
      add_received |-> {NoneV},
      add_auth_results |-> {NoneV},
      add_received_spf |-> {NoneV},
      add_return_path |-> {NoneV},
      add_date |-> {NoneV},
      add_message_id |-> {NoneV},
      spam_enabled |-> {FALSE},
      spam_filter |-> {NoneV},
      milters |-> {FALSE},
      hooks |-> {FALSE},
      script |-> {NoneV},
      dkim_sign |-> {NoneOpt},
      queue |-> NoStrategy,
      virtual_queues |-> NoQueues ]

\* Every header switch is an expression; verification is relaxed.
CoreHeaders ==
    [ max_messages |-> {NoneOpt},
      max_received_headers |-> {NoneOpt},
      dkim_verify |-> {"Relaxed"},
      dmarc_verify |-> {"Disable"},
      arc_verify |-> {"Disable"},
      arc_seal |-> {NoneV, "sealer"},
      dkim_send |-> {NoneV},
      analysis_forward |-> {TRUE},
      add_received |-> OptBool,
      add_auth_results |-> OptBool,
      add_received_spf |-> OptBool,
      add_return_path |-> OptBool,
      add_date |-> OptBool,
      add_message_id |-> OptBool,
      spam_enabled |-> BOOLEAN,
      spam_filter |-> OptBool,
      milters |-> {FALSE},
      hooks |-> {FALSE},
      script |-> {NoneV, "script"},
      dkim_sign |-> {NoneOpt} \cup SignerLists,
      queue |-> NoStrategy,
      virtual_queues |-> NoQueues ]

\* Milters, hooks and a script are configured; the rest is the default.
CoreRewrite ==
    [ max_messages |-> {NoneOpt},
      max_received_headers |-> {NoneOpt},
      dkim_verify |-> {"Disable"},
      dmarc_verify |-> {"Disable"},
      arc_verify |-> {"Disable"},
      arc_seal |-> {NoneV},
      dkim_send |-> {NoneV, "rate"},
      analysis_forward |-> {FALSE},
      add_received |-> {NoneV},
      add_auth_results |-> {NoneV},
      add_received_spf |-> {NoneV},
      add_return_path |-> {NoneV},
      add_date |-> {NoneV},
      add_message_id |-> {NoneV},
      spam_enabled |-> {TRUE},
      spam_filter |-> {NoneV},
      milters |-> BOOLEAN,
      hooks |-> BOOLEAN,
      script |-> {NoneV, "script"},
      dkim_sign |-> {SomeOpt(<<"rsa">>)},
      queue |-> NoStrategy,
      virtual_queues |-> NoQueues ]

\* A plain relay: nothing is verified, rewritten or signed.
CorePlain ==
    [ max_messages |-> {NoneOpt},
      max_received_headers |-> {NoneOpt},
      dkim_verify |-> {"Disable"},
      dmarc_verify |-> {"Disable"},
      arc_verify |-> {"Disable"},
      arc_seal |-> {NoneV},
      dkim_send |-> {NoneV},
      analysis_forward |-> {TRUE},
      add_received |-> {NoneV},
      add_auth_results |-> {"false"},
      add_received_spf |-> {NoneV},
      add_return_path |-> {NoneV},
      add_date |-> {NoneV},
      add_message_id |-> {NoneV},
      spam_enabled |-> {FALSE},
      spam_filter |-> {NoneV},
      milters |-> {FALSE},
      hooks |-> {FALSE},
      script |-> {NoneV},
      dkim_sign |-> {NoneOpt},
      queue |-> NoStrategy,
      virtual_queues |-> NoQueues ]

\* DMARC is evaluated, and the spam filter and a script are given its verdict.
CoreVerdict ==
    [CorePlain EXCEPT !.dmarc_verify = {"Relaxed"}, !.spam_enabled = {TRUE},
                      !.script = {"script"}]

-----------------------------------------------------------------------------
(* Messages: a received message is a sequence of lines.                    *)

LineReceived == "Received: from a by b;\r\n"
LineDate == "Date: Thu, 5 Nov 2026 12:00:00 +0000\r\n"
LineMessageId == "Message-ID: <1@example.org>\r\n"
LineSubject == "Subject: hello\r\n"
LineDkimSignature == "DKIM-Signature: v=1; d=foobar.org; b=abc\r\n"
LineOther == "X-Other: value\r\n"
LineReturnPath == "Return-Path: <old@foobar.org>\r\n"
LineGarbage == "no name colon\r\n"
LineBody == "body text\r\n"

\* The header name mail_parser gives a header line; "other" for a name it does not know.
HeaderName(line) ==
    CASE line = LineReceived -> "Received"
      [] line = LineDate -> "Date"
      [] line = LineMessageId -> "Message-ID"
      [] line = LineSubject -> "Subject"
      [] line = LineDkimSignature -> "DKIM-Signature"
      [] line = LineReturnPath -> "Return-Path"
      [] line = LineOther -> "other"
      [] OTHER -> NoneV

RECURSIVE HeaderLines(_)
HeaderLines(bytes) ==
    IF bytes = <<>> \/ Head(bytes) = CRLF \/ HeaderName(Head(bytes)) = NoneV THEN <<>>
    ELSE <<Head(bytes)>> \o HeaderLines(Tail(bytes))

ParseMessageUnfiltered(bytes) ==
    LET hdrs == HeaderLines(bytes)
    IN IF hdrs # <<>> THEN SomeOpt(hdrs) ELSE NoneOpt

\* MessageParser::parse(..).filter(|p| p.headers().iter().any(|h| !h.name.is_other()))
ParseMessage(bytes) ==
    LET hdrs == HeaderLines(bytes)
    IN IF \E i \in 1..Len(hdrs) : HeaderName(hdrs[i]) # "other"
       THEN SomeOpt(hdrs) ELSE NoneOpt

HasHeader(hdrs, name) == \E i \in 1..Len(hdrs) : HeaderName(hdrs[i]) = name

HeaderCount(hdrs, name) == Cardinality({i \in 1..Len(hdrs) : HeaderName(hdrs[i]) = name})

ReceivedHeadersCount(hdrs) == HeaderCount(hdrs, "Received")

MsgPlain == <<LineDate, LineMessageId, LineSubject, CRLF, LineBody>>
MsgRelayed == <<LineReceived, LineReceived, LineSubject, CRLF, LineBody, LineBody>>
MsgOnlyOther == <<LineOther, CRLF, LineBody>>
MsgGarbage == <<LineGarbage, LineBody>>
\* a message carrying n DKIM signatures, and neither Date nor Message-ID
MsgSigned(n) == [i \in 1..n |-> LineDkimSignature] \o <<LineSubject, CRLF, LineBody>>

\* a message that n servers have relayed
MsgReceived(n) == [i \in 1..n |-> LineReceived] \o <<LineSubject, CRLF, LineBody>>

SignedMessages == {MsgSigned(n) : n \in 1..MaxSigs}

\* a message that has the given ones of Return-Path, Date and Message-ID
MsgWith(lines) == lines \o <<LineSubject, CRLF, LineBody>>

MessagesWithSome ==
    {MsgWith(a \o b \o c) : a \in {<<>>, <<LineReturnPath>>}, b \in {<<>>, <<LineDate>>},
                             c \in {<<>>, <<LineMessageId>>}}

Messages == {MsgPlain, MsgRelayed, MsgOnlyOther, MsgGarbage} \cup SignedMessages

-----------------------------------------------------------------------------
(* Sessions *)

MailFrom == [address |-> "Bill@Foobar.org", address_lcase |-> "bill@foobar.org",
             domain |-> "foobar.org", flags |-> {}]

\* key: the rank of the address in the order of SessionAddress
Rcpt(addr, lcase, key, flags) ==
    [address |-> addr, address_lcase |-> lcase, key |-> key, flags |-> flags]

RcptLists ==
    { <<Rcpt("Jane@Example.org", "jane@example.org", 2, {}),
        Rcpt("ann@example.org", "ann@example.org", 1, {"NOTIFY_SUCCESS"})>> }

\* the recipients of a session in every order of arrival; RCPT TO keeps one
\* entry for an address
RcptOrders ==
    LET all == { Rcpt("Jane@Example.org", "jane@example.org", 2, {}),
                 Rcpt("ann@example.org", "ann@example.org", 1, {"NOTIFY_SUCCESS"}),
                 Rcpt("Zoe@aaa.org", "zoe@aaa.org", 3, {"NOTIFY_NEVER"}) }
    IN {q \in SeqsUpTo(all, Cardinality(all)) :
            q # <<>> /\ \A i, j \in 1..Len(q) : q[i] = q[j] => i = j}

SessionData(msgs, spf, auth, tls, ptr) ==
    [ message : msgs,
      mail_from : {MailFrom},
      rcpt_to : RcptLists,
      messages_sent : {0},
      helo_domain : {"mx.foobar.org"},
      remote_ip : {"10.0.0.1"},
      iprev_ptr : ptr,
      spf_ehlo : {NoneV},
      spf_mail_from : spf,
      authenticated : auth,
      is_tls : tls,
      asn : {NoneOpt},
      country : {NoneV},
      future_release : {0},
      delivery_by : {0},
      environment : {NoneOpt},
      \* a history variable, not a field of SessionData: whether what every
      \* DKIM signer was given and returned is kept for the session
      history : {FALSE} ]

Hostname == "mx.example.org"

\* the generator's value at startup
QueueIdSeed == 254

LocalInit ==
    [ raw_message |-> <<>>,
      parsed_message |-> NoneOpt,
      has_date_header |-> FALSE,
      has_message_id_header |-> FALSE,
      dkim |-> NoneV,
      dmarc |-> NoneV,
      dkim_output |-> <<>>,
      arc |-> NoneV,
      arc_sealer |-> NoneV,
      arc_output |-> NoneOpt,
      auth_results |-> <<>>,
      is_report |-> FALSE,
      dmarc_output |-> NoneOpt,
      dmarc_result |-> NoneV,
      dmarc_policy |-> NoneV,
      message_id |-> NoneOpt,
      headers |-> <<>>,
      rcpt_to |-> <<>>,
      spam_classify |-> NoneOpt,
      script_params |-> NoneOpt,
      modifications |-> <<>>,
      milter_modifications |-> <<>>,
      hook_modifications |-> <<>>,
      hook_queue_id |-> NoneOpt,
      configured |-> {},
      has_quota |-> NoneOpt,
      response |-> NoneOpt,
      sealed |-> NoneV,
      signed |-> <<>>,
      script_result |-> NoneV,
      edited_message |-> NoneOpt,
      message |-> NoneOpt ]

\* a session that has not received DATA
IdleData ==
    CHOOSE d \in SessionData({<<>>}, {NoneV}, {FALSE}, {FALSE}, {NoneOpt}) : TRUE

\* no DATA command was received yet
GateInit == [ result |-> NoneV, written |-> <<>>, commands |-> 0 ]

\* The sessions in `active` are at `start`: "parse" when they have received a
\* message and are about to run queue_message, "ready" when they wait for
\* commands; the others stay idle.
InitAt(active, config, sessions, start) ==
    /\ core = config
    /\ queue_id_gen = QueueIdSeed
    /\ store = {}
    /\ quota_calls = {}
    /\ report_queue = {}
    /\ analyzed = {}
    /\ events = {}
    /\ blobs = {}
    /\ queue_tx = {}
    /\ wake = [m \in Managers |-> 0]
    /\ refreshed = 0
    /\ snapshot = [m \in Managers |-> {}]
    /\ in_flight = [m \in Managers |-> {}]
    /\ remote = {}
    /\ \E d \in [active -> sessions] :
         data = [s \in Sessions |-> IF s \in active THEN d[s] ELSE IdleData]
    /\ state = [s \in Sessions |-> IF start = "parse" THEN <<"Data">> ELSE <<"Request">>]
    /\ pc = [s \in Sessions |-> IF s \in active THEN start ELSE "idle"]
    /\ reply = [s \in Sessions |-> <<>>]
    /\ trace = [s \in Sessions |-> <<>>]
    /\ local = [s \in Sessions |-> LocalInit]
    /\ gate = [s \in Sessions |-> GateInit]

\* every active session has received its message and is about to queue it
InitWith(active, config, sessions) == InitAt(active, config, sessions, "parse")

-----------------------------------------------------------------------------
(* Control flow of queue_message *)

\* StageAfter with the trace headers written before DMARC is verified
StageAfterTraceFirst(stage) ==
    CASE stage = "parse" -> "loop"
      [] stage = "loop" -> "dkim"
      [] stage = "dkim" -> "arc"
      [] stage = "arc" -> "trace"
      [] stage = "trace" -> "dmarc"
      [] stage = "dmarc" -> "report"
      [] stage = "report" -> "seal"
      [] stage = "seal" -> "spam"
      [] stage = "spam" -> "milter"
      [] stage = "milter" -> "hook"
      [] stage = "hook" -> "apply"
      [] stage = "apply" -> "script"
      [] stage = "script" -> "headers"
      [] stage = "headers" -> "sign"
      [] stage = "sign" -> "quota"
      [] stage = "quota" -> "persist"
      [] stage = "persist" -> "done"

\* StageAfter with the spam filter run before the ARC seal
StageAfterSpamFirst(stage) ==
    CASE stage = "parse" -> "loop"
      [] stage = "loop" -> "dkim"
      [] stage = "dkim" -> "arc"
      [] stage = "arc" -> "dmarc"
      [] stage = "dmarc" -> "report"
      [] stage = "report" -> "trace"
      [] stage = "trace" -> "spam"
      [] stage = "spam" -> "seal"
      [] stage = "seal" -> "milter"
      [] stage = "milter" -> "hook"
      [] stage = "hook" -> "apply"
      [] stage = "apply" -> "script"
      [] stage = "script" -> "headers"
      [] stage = "headers" -> "sign"
      [] stage = "sign" -> "quota"
      [] stage = "quota" -> "persist"
      [] stage = "persist" -> "done"

\* The stage written after `stage` in queue_message
StageAfter(stage) ==
    CASE stage = "parse" -> "loop"
      [] stage = "loop" -> "dkim"
      [] stage = "dkim" -> "arc"
      [] stage = "arc" -> "dmarc"
      [] stage = "dmarc" -> "report"
      [] stage = "report" -> "trace"
      [] stage = "trace" -> "seal"
      [] stage = "seal" -> "spam"
      [] stage = "spam" -> "milter"
      [] stage = "milter" -> "hook"
      [] stage = "hook" -> "apply"
      [] stage = "apply" -> "script"
      [] stage = "script" -> "headers"
      [] stage = "headers" -> "sign"
      [] stage = "sign" -> "quota"
      [] stage = "quota" -> "persist"
      [] stage = "persist" -> "done"

\* `return reply` at stage `stage`
Return(s, stage, r) ==
    /\ pc' = [pc EXCEPT ![s] = "done"]
    /\ reply' = [reply EXCEPT ![s] = r]
    /\ trace' = [trace EXCEPT ![s] = Append(@, stage)]

\* falling through from stage `stage` to the stage written after it
Advance(s, stage) ==
    /\ pc' = [pc EXCEPT ![s] = StageAfter(stage)]
    /\ reply' = reply
    /\ trace' = [trace EXCEPT ![s] = Append(@, stage)]

\* the reply is produced and the function goes on to the next stage
ReplyAndContinue(s, stage, r) ==
    /\ pc' = [pc EXCEPT ![s] = StageAfter(stage)]
    /\ reply' = [reply EXCEPT ![s] = r]
    /\ trace' = [trace EXCEPT ![s] = Append(@, stage)]

SetLocal(s, upd) == local' = [local EXCEPT ![s] = Merge(@, upd)]

-----------------------------------------------------------------------------
(* Stage: parse *)

Parse(s) ==
    /\ pc[s] = "parse"
    /\ LET raw_message == data[s].message
           parsed == ParseMessage(raw_message)
       IN /\ data' = [data EXCEPT ![s].message = <<>>]
          /\ IF parsed = NoneOpt
             THEN /\ SetLocal(s, [raw_message |-> raw_message])
                  /\ Return(s, "parse", ReplyParseFailed)
             ELSE /\ SetLocal(s, [raw_message |-> raw_message,
                                  parsed_message |-> parsed,
                                  has_date_header |-> HasHeader(parsed[1], "Date"),
                                  has_message_id_header |-> HasHeader(parsed[1], "Message-ID")])
                  /\ Advance(s, "parse")
    /\ UNCHANGED <<handoff_vars, manager_vars, gate, core, queue_id_gen, store, quota_calls, report_queue, analyzed, state>>

(* Stage: loop detection *)

LoopDetectedAtMax(count, max) == count >= max

LoopDetected(count, max) == count > max

LoopCheck(s) ==
    /\ pc[s] = "loop"
    /\ \E cfg \in EvalIf("max_received_headers") :
         LET max == IF cfg = NoneOpt THEN DefaultMaxReceivedHeaders ELSE cfg[1]
         IN IF LoopDetected(ReceivedHeadersCount(local[s].parsed_message[1]), max)
            THEN Return(s, "loop", ReplyLoop)
            ELSE Advance(s, "loop")
    /\ UNCHANGED <<handoff_vars, manager_vars, gate, core, queue_id_gen, store, quota_calls, report_queue, analyzed,
                   data, state, local>>

(* What the world outside the session answers: the DNS records behind the
   DKIM and DMARC verdicts, whether the message is a report, the quota of the
   recipients and the state of the store.  A session whose environment is
   None sees any answer; a session with an environment sees its answers.    *)

Answers(s, key, domain) ==
    IF data[s].environment = NoneOpt THEN domain
    ELSE {x \in domain : x = data[s].environment[1][key]}

\* the rewriters that were configured for the run of a session
Configured(s, rewriter, configured) ==
    local[s].configured \cup (IF configured THEN {rewriter} ELSE {})

(* Stage: DKIM verification *)

DkimResult == {"Pass", "Fail", "TempError"}

\* verify_dkim: one output for each signature of the message
DkimOutputs(hdrs) ==
    {q \in SeqsUpTo(DkimResult, MaxSigs) : Len(q) = HeaderCount(hdrs, "DKIM-Signature")}

DkimPass(dkim_output) == \E i \in 1..Len(dkim_output) : dkim_output[i] = "Pass"

DkimRejectedIgnoresPass(strict, pass) == strict

DkimRejected(strict, pass) == strict /\ ~pass

DkimRejectReply(dkim_output) ==
    IF \E i \in 1..Len(dkim_output) : dkim_output[i] = "TempError"
    THEN ReplyDkimTemp ELSE ReplyDkimPerm

DkimVerify(s) ==
    /\ pc[s] = "dkim"
    /\ \E dkim_cfg \in EvalIf("dkim_verify"), dmarc_cfg \in EvalIf("dmarc_verify") :
         LET dkim == UnwrapOr(dkim_cfg, "Relaxed")
             dmarc == UnwrapOr(dmarc_cfg, "Relaxed")
         IN IF Verifies(dkim) \/ Verifies(dmarc)
            THEN \E dkim_output \in Answers(s, "dkim_output",
                                              DkimOutputs(local[s].parsed_message[1])),
                    rate \in EvalIf("dkim_send"),
                    sent \in BOOLEAN :
                   LET rejected == DkimRejected(IsStrict(dkim), DkimPass(dkim_output))
                   IN /\ SetLocal(s, [dkim |-> dkim, dmarc |-> dmarc, dkim_output |-> dkim_output])
                      \* send_dkim_report for the outputs with a failure report address
                      /\ report_queue' =
                           IF rate # NoneV /\ dkim_output # <<>> /\ sent
                           THEN report_queue \cup {[session |-> s, kind |-> "dkim"]}
                           ELSE report_queue
                      /\ IF rejected
                         THEN Return(s, "dkim", DkimRejectReply(dkim_output))
                         ELSE Advance(s, "dkim")
            ELSE /\ SetLocal(s, [dkim |-> dkim, dmarc |-> dmarc, dkim_output |-> <<>>])
                 /\ report_queue' = report_queue
                 /\ Advance(s, "dkim")
    /\ UNCHANGED <<handoff_vars, manager_vars, gate, core, queue_id_gen, store, quota_calls, analyzed, data, state>>

(* Stage: ARC verification *)

ArcResult == {"Pass", "None", "Fail", "TempError"}

ArcPassOnlyPass(result) == result = "Pass"

ArcPass(result) == result \in {"Pass", "None"}

ArcRejectReply(result) == IF result = "TempError" THEN ReplyArcTemp ELSE ReplyArcPerm

ArcVerify(s) ==
    /\ pc[s] = "arc"
    /\ \E arc_cfg \in EvalIf("arc_verify"), arc_sealer \in EvalIf("arc_seal") :
         LET arc == UnwrapOr(arc_cfg, "Relaxed")
         IN IF Verifies(arc) \/ arc_sealer # NoneV
            THEN \E result \in ArcResult, can_be_sealed \in BOOLEAN :
                   LET arc_output == [result |-> result, can_be_sealed |-> can_be_sealed]
                   IN /\ SetLocal(s, [dkim |-> NoneV, arc |-> arc, arc_sealer |-> arc_sealer,
                                      arc_output |-> SomeOpt(arc_output)])
                      /\ IF IsStrict(arc) /\ ~ArcPass(result)
                         THEN Return(s, "arc", ArcRejectReply(result))
                         ELSE Advance(s, "arc")
            ELSE /\ SetLocal(s, [dkim |-> NoneV, arc |-> arc, arc_sealer |-> arc_sealer,
                                 arc_output |-> NoneOpt])
                 /\ Advance(s, "arc")
    /\ UNCHANGED <<handoff_vars, manager_vars, gate, core, queue_id_gen, store, quota_calls, report_queue, analyzed, data, state>>

(* Stage: DMARC verification *)

DmarcResult == {"Pass", "Fail", "TempError", "None"}

DmarcPolicy == {"None", "Quarantine", "Reject"}

DmarcOutputs ==
    [spf_result : DmarcResult, dkim_result : DmarcResult, policy : DmarcPolicy,
     requested_reports : BOOLEAN]

\* the outputs of verify_dmarc that the environment of the session allows;
\* whether the domain asks for aggregate reports is left open
DmarcAnswers(s) ==
    {o \in DmarcOutputs :
         /\ o.spf_result \in Answers(s, "spf_result", DmarcResult)
         /\ o.dkim_result \in Answers(s, "dkim_result", DmarcResult)
         /\ o.policy \in Answers(s, "policy", DmarcPolicy)}

\* AuthenticationResults::new(..).with_dkim_results(..).with_spf_ehlo_result(..)
\*   .with_spf_mailfrom_result(..).with_iprev_result(..)
BuildAuthResults(d, dkim_output) ==
    <<"Authentication-Results: ", Hostname>>
    \o (IF dkim_output # <<>> THEN <<";\r\n\tdkim=", "results">> ELSE <<>>)
    \o (IF d.spf_ehlo # NoneV THEN <<";\r\n\tspf=", d.spf_ehlo>> ELSE <<>>)
    \o (IF d.spf_mail_from # NoneV THEN <<";\r\n\tspf=", d.spf_mail_from>> ELSE <<>>)
    \o (IF d.iprev_ptr # NoneOpt THEN <<";\r\n\tiprev=pass">> ELSE <<>>)

WithDmarcResult(auth_results, dmarc_output) ==
    auth_results \o <<";\r\n\tdmarc=", "result">>

DmarcPass(o) == o.spf_result = "Pass" \/ o.dkim_result = "Pass"

DmarcRejectedAnyPolicy(strict, o) == strict /\ ~DmarcPass(o)

DmarcRejected(strict, o) == strict /\ o.policy = "Reject" /\ ~DmarcPass(o)

\* rejected && matches!(spf_result, TempError) || matches!(dkim_result, TempError)
DmarcIsTempFail(rejected, o) ==
    (rejected /\ o.spf_result = "TempError") \/ o.dkim_result = "TempError"

EffectiveDmarcResultDkimFirst(o) ==
    IF DmarcPass(o) THEN "Pass"
    ELSE IF o.dkim_result # "None" THEN o.dkim_result
    ELSE IF o.spf_result # "None" THEN o.spf_result
    ELSE "None"

EffectiveDmarcResult(o) ==
    IF DmarcPass(o) THEN "Pass"
    ELSE IF o.spf_result # "None" THEN o.spf_result
    ELSE IF o.dkim_result # "None" THEN o.dkim_result
    ELSE "None"

DmarcRejectContinues(s, r) == ReplyAndContinue(s, "dmarc", r)

\* DmarcReject for a session whose aggregate report took the place of the
\* rejection
DmarcRejectUnlessReported(s, r) ==
    IF [session |-> s, kind |-> "dmarc"] \in report_queue'
    THEN Advance(s, "dmarc") ELSE Return(s, "dmarc", r)

\* return if is_temp_fail { 451 4.7.1 } else { 550 5.7.1 }
DmarcReject(s, r) == Return(s, "dmarc", r)

DmarcVerify(s) ==
    /\ pc[s] = "dmarc"
    /\ \E is_report \in Answers(s, "is_report", BOOLEAN) :
         LET auth_results == BuildAuthResults(data[s], local[s].dkim_output)
         IN IF data[s].spf_mail_from # NoneV /\ Verifies(local[s].dmarc)
            THEN \E dmarc_output \in DmarcAnswers(s) :
                   LET rejected == DmarcRejected(IsStrict(local[s].dmarc), dmarc_output)
                       is_temp_fail == DmarcIsTempFail(rejected, dmarc_output)
                   IN /\ SetLocal(s, [arc |-> NoneV, is_report |-> is_report,
                                      auth_results |-> WithDmarcResult(auth_results, dmarc_output),
                                      dmarc_output |-> SomeOpt(dmarc_output),
                                      dmarc_result |-> EffectiveDmarcResult(dmarc_output),
                                      dmarc_policy |-> dmarc_output.policy])
                      \* send_dmarc_report
                      /\ report_queue' =
                           IF dmarc_output.requested_reports /\ ~is_report
                           THEN report_queue \cup {[session |-> s, kind |-> "dmarc"]}
                           ELSE report_queue
                      /\ IF rejected
                         THEN DmarcReject(s, IF is_temp_fail THEN ReplyDmarcTemp
                                                ELSE ReplyDmarcPerm)
                         ELSE Advance(s, "dmarc")
            ELSE /\ SetLocal(s, [arc |-> NoneV, is_report |-> is_report,
                                 auth_results |-> auth_results,
                                 dmarc_output |-> NoneOpt,
                                 dmarc_result |-> NoneV, dmarc_policy |-> NoneV])
                 /\ report_queue' = report_queue
                 /\ Advance(s, "dmarc")
    /\ UNCHANGED <<handoff_vars, manager_vars, gate, core, queue_id_gen, store, quota_calls, analyzed, data, state>>

(* Stage: report analysis *)

ReportAbsorbedAlways(forward) == TRUE

\* if !rc.analysis.forward
ReportAbsorbed(forward) == ~forward

AnalyzeReports(s) ==
    /\ pc[s] = "report"
    /\ \E forward \in EvalIf("analysis_forward") :
         IF local[s].is_report
         THEN /\ analyzed' = analyzed \cup {s}
              /\ IF ReportAbsorbed(forward)
                 THEN /\ data' = [data EXCEPT ![s].messages_sent = @ + 1]
                      /\ Return(s, "report", ReplyQueuedForDelivery)
                 ELSE /\ data' = data
                      /\ Advance(s, "report")
         ELSE /\ analyzed' = analyzed
              /\ data' = data
              /\ Advance(s, "report")
    \* dmarc and dmarc_output are not read after the DMARC stage
    /\ SetLocal(s, [dmarc |-> NoneV, dmarc_output |-> NoneOpt])
    /\ UNCHANGED <<handoff_vars, manager_vars, gate, core, queue_id_gen, store, quota_calls, report_queue, state>>

(* Stage: trace headers *)

\* queue_id_gen.generate(): the id handed out and the generator after the call
Generate(gen) == [id |-> gen, gen |-> gen + 1]

\* s.strip_suffix('.').unwrap_or(s)
StripSuffixDot(name) ==
    IF name # <<>> /\ Last(name) = "." THEN SubSeq(name, 1, Len(name) - 1) ELSE name

ReceivedBytes(d, id_hex) ==
    <<"Received: from ", d.helo_domain, " (">>
    \o (IF d.iprev_ptr = NoneOpt THEN <<"unknown">> ELSE StripSuffixDot(d.iprev_ptr))
    \o <<" [", d.remote_ip, "]">>
    \o (IF d.asn # NoneOpt \/ d.country # NoneV
        THEN <<" (">>
             \o (IF d.asn # NoneOpt
                 THEN <<"AS", d.asn[1].id>>
                      \o (IF d.asn[1].name # NoneV THEN <<" ", d.asn[1].name>> ELSE <<>>)
                 ELSE <<>>)
             \o (IF d.country # NoneV
                 THEN (IF d.asn # NoneOpt THEN <<", ">> ELSE <<>>) \o <<d.country>>
                 ELSE <<>>)
             \o <<")">>
        ELSE <<>>)
    \o <<")\r\n\t">>
    \o (IF d.is_tls THEN <<"(using ", "TLSv1.3", " with cipher ", "TLS13_AES_256_GCM_SHA384",
                           ")\r\n\t">>
        ELSE <<>>)
    \o <<"by ", Hostname, " (Stalwart SMTP) with ",
         CASE d.is_tls /\ ~d.authenticated -> "ESMTPS"
           [] d.is_tls /\ d.authenticated -> "ESMTPSA"
           [] ~d.is_tls /\ ~d.authenticated -> "ESMTP"
           [] ~d.is_tls /\ d.authenticated -> "ESMTPA",
         " id ">>
    \o id_hex
    \o <<";\r\n\t", "Thu, 5 Nov 2026 12:00:01 +0000", CRLF>>

WriteReceivedNextId(d, id) == ReceivedBytes(d, Hex(id + 1, TRUE))

\* format!("{id:X}")
WriteReceived(d, id) == ReceivedBytes(d, Hex(id, TRUE))

WriteAuthResults(auth_results) == auth_results \o <<CRLF>>

WriteReceivedSpf(d) ==
    <<"Received-SPF: ", d.spf_mail_from, " (", Hostname, ": domain of ",
      d.mail_from.address_lcase, ")", CRLF>>

TraceHeaders(s) ==
    /\ pc[s] = "trace"
    /\ \E add_received \in EvalIf("add_received"), add_auth_results \in EvalIf("add_auth_results"),
          add_received_spf \in EvalIf("add_received_spf") :
         LET message_id == Generate(queue_id_gen).id
             h1 == IF UnwrapOrTrue(add_received) THEN WriteReceived(data[s], message_id) ELSE <<>>
             h2 == IF UnwrapOrTrue(add_auth_results)
                   THEN WriteAuthResults(local[s].auth_results) ELSE <<>>
             h3 == IF data[s].spf_mail_from # NoneV /\ UnwrapOrTrue(add_received_spf)
                   THEN WriteReceivedSpf(data[s]) ELSE <<>>
         IN /\ queue_id_gen' = Generate(queue_id_gen).gen
            \* is_report is not read after the report stage
            /\ SetLocal(s, [is_report |-> FALSE, message_id |-> SomeOpt(message_id),
                            headers |-> h1 \o h2 \o h3])
    /\ Advance(s, "trace")
    /\ UNCHANGED <<handoff_vars, manager_vars, gate, core, store, quota_calls, report_queue, analyzed, data, state>>

(* Stage: ARC seal *)

ArcSet == <<"ARC-Seal: i=1; cv=none", CRLF, "ARC-Message-Signature: i=1", CRLF,
            "ARC-Authentication-Results: i=1; ", Hostname, CRLF>>

\* CanSeal for a sealer that does not look at the DKIM results
CanSealWithoutDkim(arc_sealer, arc_output, dkim_output) ==
    /\ arc_sealer # NoneV
    /\ arc_output # NoneOpt
    /\ arc_output[1].can_be_sealed

CanSeal(arc_sealer, arc_output, dkim_output) ==
    /\ arc_sealer # NoneV
    /\ arc_output # NoneOpt
    /\ dkim_output # <<>>
    /\ arc_output[1].can_be_sealed

ArcSeal(s) ==
    /\ pc[s] = "seal"
    /\ \E seal_ok \in BOOLEAN :
         LET can_seal == CanSeal(local[s].arc_sealer, local[s].arc_output,
                                 local[s].dkim_output)
         IN SetLocal(s, [headers |-> IF can_seal /\ seal_ok
                                     THEN local[s].headers \o ArcSet
                                     ELSE local[s].headers,
                         \* the value of arc_sealer.seal(..), when it was called
                         sealed |-> IF ~can_seal THEN NoneV
                                    ELSE IF seal_ok THEN "Ok" ELSE "Err"])
    /\ Advance(s, "seal")
    /\ UNCHANGED <<handoff_vars, manager_vars, gate, core, queue_id_gen, store, quota_calls, report_queue, analyzed, data, state>>

(* Stage: spam filter *)

SpamHeaders == <<"X-Spam-Status: Yes", CRLF>>

SpamFilterAction ==
    {[action |-> "Allow", headers |-> <<>>], [action |-> "Allow", headers |-> SpamHeaders],
     [action |-> "Discard", headers |-> <<>>], [action |-> "Reject", headers |-> <<>>]}

\* what the stages after the ARC seal do not read
SealInputsDropped ==
    [arc_sealer |-> NoneV, arc_output |-> NoneOpt, dkim_output |-> <<>>, auth_results |-> <<>>,
     sealed |-> NoneV]

SpamFilterEnabledIgnoresFlag(enabled, spam_filter) == enabled

\* self.server.core.spam.enabled && eval_if(&dc.spam_filter, ..).unwrap_or(true)
SpamFilterEnabled(enabled, spam_filter) == enabled /\ UnwrapOrTrue(spam_filter)

\* the verdicts that spam_classify and the script are given
DmarcVerdict(s) ==
    SomeOpt([dmarc_result |-> local[s].dmarc_result, dmarc_policy |-> local[s].dmarc_policy])

SpamFilter(s) ==
    /\ pc[s] = "spam"
    /\ \E enabled \in core.spam_enabled, spam_filter \in EvalIf("spam_filter") :
         IF SpamFilterEnabled(enabled, spam_filter)
         THEN \E result \in SpamFilterAction :
                CASE result.action = "Allow" ->
                       /\ SetLocal(s, [headers |-> local[s].headers \o result.headers,
                                       spam_classify |-> DmarcVerdict(s)]
                                       @@ SealInputsDropped)
                       /\ data' = data
                       /\ Advance(s, "spam")
                  [] result.action = "Discard" ->
                       /\ SetLocal(s, [spam_classify |-> DmarcVerdict(s)])
                       /\ data' = [data EXCEPT ![s].messages_sent = @ + 1]
                       /\ Return(s, "spam", ReplyQueuedForDelivery)
                  [] result.action = "Reject" ->
                       /\ SetLocal(s, [spam_classify |-> DmarcVerdict(s)])
                       /\ data' = [data EXCEPT ![s].messages_sent = @ + 1]
                       /\ Return(s, "spam", ReplySpam)
         ELSE /\ SetLocal(s, SealInputsDropped)
              /\ data' = data
              /\ Advance(s, "spam")
    /\ UNCHANGED <<handoff_vars, manager_vars, gate, core, queue_id_gen, store, quota_calls, report_queue, analyzed, state>>

(* Stages: milter, MTA hook, apply modifications *)

BodyMilter == <<"body replaced by milter\r\n">>
BodyHook == <<"body replaced by the hook\r\n">>

MilterModification ==
    {[kind |-> "AddHeader", value |-> <<"X-Milter: 1\r\n">>],
     [kind |-> "ReplaceBody", value |-> BodyMilter]}

HookModification ==
    {[kind |-> "AddHeader", value |-> <<"X-Hook: 1\r\n">>],
     [kind |-> "ReplaceBody", value |-> BodyHook]}

ReplyMilterReject == <<"554 5.7.1 Rejected by milter.", CRLF>>
ReplyHookReject == <<"550 5.7.1 Rejected by the hook.", CRLF>>

RewriterRejectsContinues(s, stage, response) == ReplyAndContinue(s, stage, response)

\* Err(response) => return response.into_bytes()
RewriterRejects(s, stage, response) == Return(s, stage, response)

RunMilters(s) ==
    /\ pc[s] = "milter"
    /\ \E configured \in core.milters :
       \E ok \in IF configured THEN Answers(s, "milter_ok", BOOLEAN) ELSE {TRUE},
          modifications_ \in IF configured
                             THEN Answers(s, "milter_modifications",
                                          SeqsUpTo(MilterModification, MaxMods))
                             ELSE {<<>>} :
         IF ok
         THEN /\ SetLocal(s, [spam_classify |-> NoneOpt,
                              configured |-> Configured(s, "milter", configured),
                              modifications |-> modifications_,
                              milter_modifications |-> modifications_])
              /\ Advance(s, "milter")
         ELSE /\ modifications_ = <<>>
              /\ SetLocal(s, [spam_classify |-> NoneOpt,
                              response |-> SomeOpt(ReplyMilterReject),
                              configured |-> Configured(s, "milter", configured)])
              /\ RewriterRejects(s, "milter", ReplyMilterReject)
    /\ UNCHANGED <<handoff_vars, manager_vars, gate, core, queue_id_gen, store, quota_calls, report_queue, analyzed, data, state>>

\* modifications.retain(|m| !matches!(m, Modification::ReplaceBody { .. }));
\* modifications.extend(modifications_);
MergeModifications(modifications, modifications_) ==
    IF modifications_ # <<>>
    THEN LET NotReplaceBody(m) == m.kind # "ReplaceBody"
         IN SelectSeq(modifications, NotReplaceBody) \o modifications_
    ELSE modifications

RunMtaHooks(s) ==
    /\ pc[s] = "hook"
    /\ \E configured \in core.hooks :
       \E ok \in IF configured THEN Answers(s, "hook_ok", BOOLEAN) ELSE {TRUE},
          modifications_ \in IF configured
                             THEN Answers(s, "hook_modifications",
                                          SeqsUpTo(HookModification, MaxMods))
                             ELSE {<<>>} :
         IF ok
         THEN /\ SetLocal(s, [hook_queue_id |-> local[s].message_id,
                              configured |-> Configured(s, "hook", configured),
                              hook_modifications |-> modifications_,
                              modifications |->
                                  MergeModifications(local[s].modifications, modifications_)])
              /\ Advance(s, "hook")
         ELSE /\ modifications_ = <<>>
              /\ SetLocal(s, [hook_queue_id |-> local[s].message_id,
                              response |-> SomeOpt(ReplyHookReject),
                              configured |-> Configured(s, "hook", configured)])
              /\ RewriterRejects(s, "hook", ReplyHookReject)
    /\ UNCHANGED <<handoff_vars, manager_vars, gate, core, queue_id_gen, store, quota_calls, report_queue, analyzed, data, state>>

RECURSIVE SeparatorAt(_, _)
SeparatorAt(bytes, i) ==
    IF i > Len(bytes) THEN i ELSE IF bytes[i] = CRLF THEN i ELSE SeparatorAt(bytes, i + 1)

\* One modification applied to a message: a header goes before the blank line,
\* a body replaces what follows it.
ApplyModification(bytes, m) ==
    LET sep == SeparatorAt(bytes, 1)
    IN IF m.kind = "AddHeader"
       THEN SubSeq(bytes, 1, sep - 1) \o m.value \o SubSeq(bytes, sep, Len(bytes))
       ELSE SubSeq(bytes, 1, sep - 1) \o <<CRLF>> \o m.value

RECURSIVE ApplyAll(_, _)
ApplyAll(bytes, modifications) ==
    IF modifications = <<>> THEN bytes
    ELSE ApplyAll(ApplyModification(bytes, Head(modifications)), Tail(modifications))

\* SessionData::apply_milter_modifications
ApplyMilterModifications(modifications, raw_message) ==
    SomeOpt(ApplyAll(raw_message, modifications))

ApplyModifications(s) ==
    /\ pc[s] = "apply"
    /\ SetLocal(s, [modifications |-> <<>>,
                    milter_modifications |-> <<>>,
                    hook_modifications |-> <<>>,
                    edited_message |->
                        IF local[s].modifications # <<>>
                        THEN ApplyMilterModifications(local[s].modifications,
                                                      local[s].raw_message)
                        ELSE NoneOpt])
    /\ Advance(s, "apply")
    /\ UNCHANGED <<handoff_vars, manager_vars, gate, core, queue_id_gen, store, quota_calls, report_queue, analyzed, data, state>>

(* Stage: Sieve script *)

BodyScript == <<LineSubject, CRLF, "body replaced by the script\r\n">>

ScriptModification ==
    {[kind |-> "AddHeader", name |-> "X-Script", value |-> <<"yes">>],
     [kind |-> "AddHeader", name |-> "X-Script-Folded", value |-> <<"yes", "\n">>],
     [kind |-> "SetEnvelope", name |-> "from", value |-> <<"other@foobar.org">>]}

ScriptResult ==
    [kind : {"Accept"}, message : {<<>>}, modifications : SeqsUpTo(ScriptModification, MaxMods)]
    \cup [kind : {"Replace"}, message : {BodyScript},
          modifications : SeqsUpTo(ScriptModification, MaxMods)]
    \cup [kind : {"Reject", "Discard"}, message : {<<>>}, modifications : {<<>>}]

ReplyScriptReject == <<"503 5.5.3 Rejected by the script.", CRLF>>

\* ScriptModification::AddHeader { name, value }
AddHeaderBytes(m) ==
    <<m.name, ": ">> \o m.value \o (IF Last(m.value) # "\n" THEN <<CRLF>> ELSE <<>>)

RECURSIVE ScriptHeaders(_)
ScriptHeaders(modifications) ==
    IF modifications = <<>> THEN <<>>
    ELSE (IF Head(modifications).kind = "AddHeader" THEN AddHeaderBytes(Head(modifications))
          ELSE <<>>)
         \o ScriptHeaders(Tail(modifications))

\* SessionData::apply_envelope_modification
ApplyEnvelopeModification(d, m) ==
    IF m.name = "from"
    THEN [d EXCEPT !.mail_from = [address |-> m.value[1], address_lcase |-> m.value[1],
                                  domain |-> "foobar.org", flags |-> @.flags]]
    ELSE d

RECURSIVE ApplyEnvelope(_, _)
ApplyEnvelope(d, modifications) ==
    IF modifications = <<>> THEN d
    ELSE ApplyEnvelope(IF Head(modifications).kind = "SetEnvelope"
                       THEN ApplyEnvelopeModification(d, Head(modifications)) ELSE d,
                       Tail(modifications))

\* ScriptMessage for a script whose message is taken whatever it answered
ScriptMessageAlways(result, edited_message) == SomeOpt(result.message)

\* ScriptMessage for a script whose message gives way to the body of the
\* milters and hooks
ScriptMessageKeepsEdited(result, edited_message) ==
    IF edited_message # NoneOpt THEN edited_message
    ELSE IF result.kind = "Replace" THEN SomeOpt(result.message) ELSE NoneOpt

\* ScriptResult::Replace { message, .. } => edited_message = message.into()
ScriptMessage(result, edited_message) ==
    IF result.kind = "Replace" THEN SomeOpt(result.message) ELSE edited_message

RunScript(s) ==
    /\ pc[s] = "script"
    /\ \E script \in EvalIf("script") :
         IF script # NoneV
         THEN \E result \in Answers(s, "script_result", ScriptResult) :
                CASE result.kind \in {"Accept", "Replace"} ->
                       /\ SetLocal(s, [script_params |-> DmarcVerdict(s),
                                       script_result |-> result.kind,
                                       configured |-> Configured(s, "script", TRUE),
                                       edited_message |->
                                           ScriptMessage(result, local[s].edited_message),
                                       headers |-> local[s].headers
                                                   \o ScriptHeaders(result.modifications)])
                       /\ data' = [data EXCEPT ![s] = ApplyEnvelope(@, result.modifications)]
                       /\ Advance(s, "script")
                  [] result.kind = "Reject" ->
                       /\ SetLocal(s, [script_params |-> DmarcVerdict(s),
                                       script_result |-> result.kind,
                                       response |-> SomeOpt(ReplyScriptReject),
                                       configured |-> Configured(s, "script", TRUE)])
                       /\ data' = data
                       /\ RewriterRejects(s, "script", ReplyScriptReject)
                  [] result.kind = "Discard" ->
                       /\ SetLocal(s, [script_params |-> DmarcVerdict(s),
                                       script_result |-> result.kind,
                                       configured |-> Configured(s, "script", TRUE)])
                       /\ data' = data
                       /\ Return(s, "script", ReplyQueuedForDelivery)
         ELSE /\ local' = local
              /\ data' = data
              /\ Advance(s, "script")
    /\ UNCHANGED <<handoff_vars, manager_vars, gate, core, queue_id_gen, store, quota_calls, report_queue, analyzed, state>>

(* Stage: build the message, add Return-Path, Date and Message-ID *)

NotifyFlags == {"NOTIFY_DELAY", "NOTIFY_FAILURE", "NOTIFY_SUCCESS", "NOTIFY_NEVER"}

\* Ord for SessionAddress: addresses compare as their lowercased bytes do
SessionAddressKey(rcpt) == rcpt.key

SortRcptKeepsOrder(rcpt_to) == rcpt_to

RECURSIVE SortRcpt(_)
SortRcpt(rcpt_to) ==
    IF rcpt_to = <<>> THEN <<>>
    ELSE LET least == CHOOSE i \in 1..Len(rcpt_to) :
                        \A j \in 1..Len(rcpt_to) :
                            SessionAddressKey(rcpt_to[i]) < SessionAddressKey(rcpt_to[j])
                            \/ (/\ SessionAddressKey(rcpt_to[i]) = SessionAddressKey(rcpt_to[j])
                                /\ i <= j)
             rest == [k \in 1..(Len(rcpt_to) - 1) |->
                        IF k < least THEN rcpt_to[k] ELSE rcpt_to[k + 1]]
         IN <<rcpt_to[least]>> \o SortRcpt(rest)

\* RecipientFlags with the default added to every recipient
RecipientFlagsAlwaysDefault(flags) == flags \cup {"NOTIFY_DELAY", "NOTIFY_FAILURE"}

\* rcpt.flags & (DELAY | FAILURE | SUCCESS | NEVER) != 0 { rcpt.flags }
\* else { rcpt.flags | RCPT_NOTIFY_DELAY | RCPT_NOTIFY_FAILURE }
RecipientFlags(flags) ==
    IF flags \cap NotifyFlags # {} THEN flags
    ELSE flags \cup {"NOTIFY_DELAY", "NOTIFY_FAILURE"}

\* 64-bit words are modelled with WordBits bits
WordBits == 20
Modulus == 2 ^ WordBits
MinI64 == -(Modulus \div 2)
MaxI64 == (Modulus \div 2) - 1

\* i64 as u64
AsU64(i) == i % Modulus

\* i64::unsigned_abs
UnsignedAbs(i) == IF i < 0 THEN -i ELSE i

\* Schedule::now() and Schedule::later(duration): due counts the seconds
\* after the clock reading of the call, inner the notifications sent
ScheduleNow == [due |-> 0, inner |-> 0]
ScheduleLater(duration) == [due |-> duration, inner |-> 0]

Duration(time) == [kind |-> "Duration", value |-> time]
Count(count) == [kind |-> "Count", value |-> count]

\* the queue that get_queue_or_default falls back to
BuiltinNotify == <<86400, 259200>>
BuiltinQueue ==
    [virtual_queue |-> "default", notify |-> BuiltinNotify, expiry |-> Duration(432000)]

\* Server::get_queue_or_default
GetQueueOrDefault(name) ==
    IF name \in DOMAIN core.virtual_queues THEN core.virtual_queues[name] ELSE BuiltinQueue

\* eval_if(&self.server.core.smtp.queue.queue, &envelope, ..)
EvalQueue(envelope) ==
    IF core.queue.rcpt # NoneV /\ envelope.rcpt = core.queue.rcpt
    THEN core.queue.then ELSE core.queue.else

\* ResolveQueue with every recipient put on the queue of the first one
ResolveQueueOfFirst(message, recipient) ==
    GetQueueOrDefault(UnwrapOr(EvalQueue([rcpt |-> message.recipients[1].address_lcase]),
                               "default"))

\* QueueEnvelope::new(&message, message.recipients.last().unwrap()), then
\* get_queue_or_default(eval_if(..).unwrap_or_else(|| "default"))
ResolveQueue(message, recipient) ==
    GetQueueOrDefault(UnwrapOr(EvalQueue([rcpt |-> recipient.address_lcase]), "default"))

DefaultNotify == 86400

\* queue.notify.first().copied().unwrap_or(86400)
NextNotify(queue) == IF queue.notify # <<>> THEN queue.notify[1] ELSE DefaultNotify

\* NumIntervals without the lower limit of 1
NumIntervalsLen(queue) == Len(queue.notify)

\* std::cmp::max(queue.notify.len(), 1)
NumIntervals(queue) == IF Len(queue.notify) > 1 THEN Len(queue.notify) ELSE 1

\* Retry for a message whose release is never deferred
RetryAlwaysNow(future_release) == ScheduleNow

\* if self.data.future_release == 0 { now() } else { later(future_release) }
Retry(future_release) ==
    IF future_release = 0 THEN ScheduleNow ELSE ScheduleLater(future_release)

\* NotifyDelay with the subtraction made whatever the deadline is
NotifyDelayAlwaysSubtracts(queue, delivery_by) ==
    IF queue.expiry.kind = "Duration"
    THEN IF delivery_by > 0
         THEN IF queue.expiry.value > AsU64(delivery_by) THEN AsU64(delivery_by)
              ELSE NextNotify(queue)
         ELSE AsU64(queue.expiry.value - AsU64(-delivery_by))
    ELSE NextNotify(queue)

\* the delay of the notification of a message with a deadline and no
\* MAIL BY RETURN, before future_release is added
NotifyDelay(queue, delivery_by) ==
    IF queue.expiry.kind = "Duration"
    THEN LET expire_secs == queue.expiry.value
         IN IF delivery_by > 0
            THEN LET notify_at == AsU64(delivery_by)
                 IN IF expire_secs > notify_at THEN notify_at ELSE NextNotify(queue)
            ELSE LET notify_at == AsU64(-delivery_by)
                 IN IF expire_secs > notify_at THEN expire_secs - notify_at
                    ELSE NextNotify(queue)
    ELSE NextNotify(queue)

\* NotifyExpiresNoDeadline with the expiry of the queue copied as it is
NotifyExpiresNoDeadlineKeepsExpiry(queue, future_release) ==
    [ notify |-> ScheduleLater(future_release + NextNotify(queue)),
      expires |-> queue.expiry ]

\* the branch taken when delivery_by == 0
NotifyExpiresNoDeadline(queue, future_release) ==
    [ notify |-> ScheduleLater(future_release + NextNotify(queue)),
      expires |-> IF queue.expiry.kind = "Duration"
                  THEN Duration(future_release + queue.expiry.value)
                  ELSE Count(queue.expiry.value) ]

\* the branch taken when (message.flags & MAIL_BY_RETURN) != 0
NotifyExpiresReturn(queue, future_release, delivery_by) ==
    [ notify |-> ScheduleLater(future_release + NextNotify(queue)),
      expires |-> Duration(AsU64(delivery_by)) ]

\* the last branch: a deadline without MAIL BY RETURN
NotifyExpiresDeadline(queue, future_release, delivery_by) ==
    [ notify |-> [ScheduleLater(future_release + NotifyDelay(queue, delivery_by))
                      EXCEPT !.inner = NumIntervals(queue) - 1],
      expires |-> IF queue.expiry.kind = "Duration" THEN Duration(queue.expiry.value)
                  ELSE Duration(UnsignedAbs(delivery_by)) ]

\* Set expiration and notification times
NotifyExpires(queue, flags, future_release, delivery_by) ==
    IF delivery_by = 0 THEN NotifyExpiresNoDeadline(queue, future_release)
    ELSE IF "MAIL_BY_RETURN" \in flags
         THEN NotifyExpiresReturn(queue, future_release, delivery_by)
         ELSE NotifyExpiresDeadline(queue, future_release, delivery_by)

\* one turn of `for rcpt in rcpt_to`: the recipient is pushed and then updated
Recipient(d, message, rcpt) ==
    LET pushed == [ address |-> rcpt.address,
                    address_lcase |-> rcpt.address_lcase,
                    key |-> rcpt.key,
                    status |-> "Scheduled",
                    flags |-> RecipientFlags(rcpt.flags),
                    retry |-> ScheduleNow,
                    notify |-> ScheduleNow,
                    expires |-> Count(0),
                    queue |-> "default" ]
        with_last == [message EXCEPT !.recipients = Append(@, pushed)]
        queue == ResolveQueue(with_last, pushed)
        times == NotifyExpires(queue, message.flags, d.future_release, d.delivery_by)
    IN [pushed EXCEPT !.retry = Retry(d.future_release),
                      !.notify = times.notify,
                      !.expires = times.expires,
                      !.queue = queue.virtual_queue]

RECURSIVE AddRecipients(_, _, _)
AddRecipients(d, message, rcpt_to) ==
    IF rcpt_to = <<>> THEN message
    ELSE AddRecipients(d, [message EXCEPT !.recipients =
                                      Append(@, Recipient(d, message, Head(rcpt_to)))],
                       Tail(rcpt_to))

\* TakeRcptTo for a list that is cloned and left in the session
TakeRcptToClones(d) == d

\* std::mem::take(&mut self.data.rcpt_to): what is left in the session
TakeRcptTo(d) == [d EXCEPT !.rcpt_to = <<>>]

BuildMessage(d, mail_from, rcpt_to, queue_id) ==
    AddRecipients(d, [ queue_id |-> queue_id,
                       return_path |-> mail_from.address,
                       return_path_lcase |-> mail_from.address_lcase,
                       return_path_domain |-> mail_from.domain,
                       recipients |-> <<>>,
                       flags |-> mail_from.flags,
                       size |-> 0 ],
                  SortRcpt(rcpt_to))

ReturnPathHeader(message) == <<"Return-Path: <", message.return_path, ">\r\n">>
DateHeader == <<"Date: ", "Thu, 5 Nov 2026 12:00:02 +0000", CRLF>>
MessageIdHeader == <<"Message-ID: ", "<generated@", Hostname, ">", CRLF>>

AddHeaders(s) ==
    /\ pc[s] = "headers"
    /\ \E add_return_path \in EvalIf("add_return_path"), add_date \in EvalIf("add_date"),
          add_message_id \in EvalIf("add_message_id") :
         LET message == BuildMessage(data[s], data[s].mail_from, data[s].rcpt_to,
                                     local[s].message_id[1])
             h1 == IF UnwrapOrTrue(add_return_path) THEN ReturnPathHeader(message) ELSE <<>>
             h2 == IF ~local[s].has_date_header /\ UnwrapOrTrue(add_date)
                   THEN DateHeader ELSE <<>>
             h3 == IF ~local[s].has_message_id_header /\ UnwrapOrTrue(add_message_id)
                   THEN MessageIdHeader ELSE <<>>
         IN SetLocal(s, [script_params |-> NoneOpt,
                         rcpt_to |-> data[s].rcpt_to,
                         message |-> SomeOpt(message),
                         headers |-> local[s].headers \o h1 \o h2 \o h3])
    /\ data' = [data EXCEPT ![s] = TakeRcptTo(@)]
    /\ Advance(s, "headers")
    /\ UNCHANGED <<handoff_vars, manager_vars, gate, core, queue_id_gen, store, quota_calls, report_queue, analyzed, state>>

(* Stage: DKIM sign *)

FinalBodyRaw(edited_message, raw_message) == raw_message

\* edited_message.as_deref().unwrap_or(raw_message.as_slice())
FinalBody(edited_message, raw_message) ==
    IF edited_message # NoneOpt THEN edited_message[1] ELSE raw_message

KnownSigners == {"rsa"}

DkimSignature(signer) == <<"DKIM-Signature: v=1; a=", signer, "; b=signature", CRLF>>

RECURSIVE SignAllPrepend(_, _, _)
SignAllPrepend(headers, signers, oks) ==
    IF signers = <<>> THEN headers
    ELSE SignAllPrepend(IF Head(signers) \in KnownSigners /\ Head(oks)
                        THEN DkimSignature(Head(signers)) \o headers ELSE headers,
                        Tail(signers), Tail(oks))

RECURSIVE SignAll(_, _, _)
SignAll(headers, signers, oks) ==
    IF signers = <<>> THEN headers
    ELSE SignAll(IF Head(signers) \in KnownSigners /\ Head(oks)
                 THEN headers \o DkimSignature(Head(signers)) ELSE headers,
                 Tail(signers), Tail(oks))

SignInputBodyOnly(headers, raw_message) == raw_message

\* signer.sign_chained(&[headers.as_ref(), raw_message])
SignInput(headers, raw_message) == headers \o raw_message

\* what happened to every configured signer, in order: the signer was not found
\* (result None), or it was given an input and returned Ok or Err
RECURSIVE Signed(_, _, _, _)
Signed(headers, raw_message, signers, oks) ==
    IF signers = <<>> THEN <<>>
    ELSE LET known == Head(signers) \in KnownSigners
             result == IF ~known THEN NoneV ELSE IF Head(oks) THEN "Ok" ELSE "Err"
         IN <<[signer |-> Head(signers), result |-> result,
               over |-> IF known THEN SignInput(headers, raw_message) ELSE <<>>]>>
            \o Signed(IF result = "Ok" THEN headers \o DkimSignature(Head(signers))
                      ELSE headers,
                      raw_message, Tail(signers), Tail(oks))

DkimSign(s) ==
    /\ pc[s] = "sign"
    /\ \E cfg \in EvalIf("dkim_sign") :
         LET signers == IF cfg = NoneOpt THEN <<>> ELSE cfg[1]
         IN \E oks \in [1..Len(signers) -> BOOLEAN] :
              SetLocal(s, [rcpt_to |-> <<>>,
                           signed |-> IF data[s].history
                                      THEN Signed(local[s].headers,
                                                  FinalBody(local[s].edited_message,
                                                            local[s].raw_message),
                                                  signers, oks)
                                      ELSE <<>>,
                           headers |-> SignAll(local[s].headers, signers, oks)])
    /\ Advance(s, "sign")
    /\ UNCHANGED <<handoff_vars, manager_vars, gate, core, queue_id_gen, store, quota_calls, report_queue, analyzed, data, state>>

(* Stages: size and quota, persist *)

MessageSizeNoHeaders(raw_message, headers) == ByteLen(raw_message)

MessageSize(raw_message, headers) == ByteLen(raw_message) + ByteLen(headers)

\* QuotaDenied with the message handed to the store all the same
QuotaDeniedContinues(s) == ReplyAndContinue(s, "quota", ReplyFull)

\* } else { 452 4.3.1 Mail system full, try again later. }
QuotaDenied(s) == Return(s, "quota", ReplyFull)

CheckQuota(s) ==
    /\ pc[s] = "quota"
    /\ LET raw_message == FinalBody(local[s].edited_message, local[s].raw_message)
           message == [local[s].message[1] EXCEPT
                          !.size = MessageSize(raw_message, local[s].headers)]
       IN /\ quota_calls' = quota_calls
                              \cup {[span_id |-> s, queue_id |-> message.queue_id,
                                     size |-> message.size]}
          /\ \E has_quota \in Answers(s, "has_quota", BOOLEAN) :
               /\ SetLocal(s, [message |-> SomeOpt(message),
                               \* the results of the signers are not kept
                               signed |-> <<>>,
                               has_quota |-> SomeOpt(has_quota)])
               /\ IF has_quota THEN Advance(s, "quota") ELSE QuotaDenied(s)
    /\ UNCHANGED <<handoff_vars, manager_vars, gate, core, queue_id_gen, store, report_queue, analyzed, data, state>>

MessageSource(authenticated, dmarc_result) ==
    IF ~authenticated
    THEN [kind |-> "Unauthenticated", dmarc_pass |-> dmarc_result = "Pass"]
    ELSE [kind |-> "Authenticated", dmarc_pass |-> FALSE]

\* Message::queue writes one event for every virtual queue the recipients are in
QueueEvents(message) ==
    { [due |-> message.recipients[i].retry.due, queue_id |-> message.queue_id,
       queue_name |-> message.recipients[i].queue] : i \in DOMAIN message.recipients }

Persist(s) ==
    /\ pc[s] = "persist"
    /\ LET message == local[s].message[1]
           queue_id == message.queue_id
           raw_message == FinalBody(local[s].edited_message, local[s].raw_message)
           source == MessageSource(data[s].authenticated, local[s].dmarc_result)
       IN \E queued \in Answers(s, "queued", BOOLEAN) :
            IF queued
            THEN /\ store' = store \cup {[span_id |-> s, queue_id |-> queue_id,
                                           message |-> message,
                                           headers |-> local[s].headers,
                                           raw_message |-> raw_message, source |-> source]}
                 /\ blobs' = blobs \cup {queue_id}
                 /\ events' = events \cup QueueEvents(message)
                 /\ queue_tx' = queue_tx \cup {queue_id}
                 /\ state' = [state EXCEPT ![s] = <<"Accepted", queue_id>>]
                 /\ data' = [data EXCEPT ![s].messages_sent = @ + 1]
                 /\ Return(s, "persist", ReplyQueued(queue_id))
            ELSE /\ store' = store
                 /\ UNCHANGED handoff_vars
                 /\ state' = state
                 /\ data' = data
                 /\ Return(s, "persist", ReplyUnable)
    /\ UNCHANGED <<manager_vars, gate, core, queue_id_gen, quota_calls, report_queue, analyzed, local>>

-----------------------------------------------------------------------------
(* The queue managers (smtp::queue::manager::Queue), several of which may    *)
(* run over the one queue store.                                             *)

\* the events a scan of the queue store returns: those that are due
DueEvents == {e \in events : e.due = 0}

\* the events whose lock some manager holds
Locked == UNION {in_flight[m] : m \in Managers}

\* the recipients of a message that are in a virtual queue
QueueRcpts(message, queue_name) ==
    { message.recipients[i].address_lcase :
          i \in {j \in DOMAIN message.recipients : message.recipients[j].queue = queue_name} }

\* some component of the server sends QueueEvent::Refresh to a manager
SendRefresh(m) ==
    /\ refreshed < MaxRefresh
    /\ refreshed' = refreshed + 1
    /\ wake' = [wake EXCEPT ![m] = @ + 1]
    /\ UNCHANGED <<handoff_vars, snapshot, in_flight, remote, gate, core, queue_id_gen, store,
                   quota_calls, report_queue, analyzed, data, state, pc, reply, trace, local>>

\* the manager, waiting for an event, takes one Refresh from its channel and
\* reads the due events
OnRefresh(m) ==
    /\ snapshot[m] = {}
    /\ wake[m] > 0
    /\ wake' = [wake EXCEPT ![m] = @ - 1]
    /\ snapshot' = [snapshot EXCEPT ![m] = DueEvents \ in_flight[m]]
    /\ UNCHANGED <<handoff_vars, refreshed, in_flight, remote, gate, core, queue_id_gen, store,
                   quota_calls, report_queue, analyzed, data, state, pc, reply, trace, local>>

PollOnlyWhenWoken(m) == wake[m] > 0

\* the wait for an event ends by its timeout whether or not an event arrived
PollEnabled(m) == TRUE

\* the wait of the manager times out and it reads the due events
OnTimeout(m) ==
    /\ snapshot[m] = {}
    /\ PollEnabled(m)
    /\ snapshot' = [snapshot EXCEPT ![m] = DueEvents \ in_flight[m]]
    /\ UNCHANGED <<handoff_vars, wake, refreshed, in_flight, remote, gate, core, queue_id_gen, store,
                   quota_calls, report_queue, analyzed, data, state, pc, reply, trace, local>>

\* the events are read in the order of their keys
FirstEvent(read) ==
    LET first == {e \in read : \A o \in read : e.queue_id <= o.queue_id}
    IN CHOOSE e \in first : TRUE

\* the manager tries to lock the next event it read; an event locked elsewhere is
\* skipped
TryLock(m, e) ==
    /\ snapshot[m] # {}
    /\ e = FirstEvent(snapshot[m])
    /\ snapshot' = [snapshot EXCEPT ![m] = @ \ {e}]
    /\ in_flight' = IF e \in Locked THEN in_flight
                    ELSE [in_flight EXCEPT ![m] = @ \cup {e}]
    /\ UNCHANGED <<handoff_vars, wake, refreshed, remote, gate, core, queue_id_gen, store,
                   quota_calls, report_queue, analyzed, data, state, pc, reply, trace, local>>

StillQueuedAlways(e) == TRUE

\* the delivery task reads the event again under its lock
StillQueued(e) == e \in events

\* the delivery task of a locked event: the recipients of its virtual queue are
\* sent to the remote host in one message, the event is removed, and with the
\* last event of a message the message and its blob are removed
Deliver(m, e) ==
    /\ e \in in_flight[m]
    /\ in_flight' = [in_flight EXCEPT ![m] = @ \ {e}]
    /\ IF StillQueued(e) /\ \E msg \in store : msg.queue_id = e.queue_id
       THEN LET msg == CHOOSE x \in store : x.queue_id = e.queue_id
                sent == [queue_id |-> e.queue_id, queue_name |-> e.queue_name,
                         rcpts |-> QueueRcpts(msg.message, e.queue_name)]
                copies == {r \in remote : r.msg = sent}
                last == \A o \in events \ {e} : o.queue_id # e.queue_id
            IN /\ remote' = remote \cup {[msg |-> sent, copy |-> Cardinality(copies) + 1]}
               /\ events' = events \ {e}
               /\ store' = IF last THEN store \ {msg} ELSE store
               /\ blobs' = IF last THEN blobs \ {e.queue_id} ELSE blobs
       ELSE UNCHANGED <<remote, events, store, blobs>>
    /\ UNCHANGED <<queue_tx, wake, refreshed, snapshot, gate, core, queue_id_gen,
                   quota_calls, report_queue, analyzed, data, state, pc, reply, trace, local>>

Next ==
    \/ \E s \in Sessions : Parse(s)
    \/ \E s \in Sessions : LoopCheck(s)
    \/ \E s \in Sessions : DkimVerify(s)
    \/ \E s \in Sessions : ArcVerify(s)
    \/ \E s \in Sessions : DmarcVerify(s)
    \/ \E s \in Sessions : AnalyzeReports(s)
    \/ \E s \in Sessions : TraceHeaders(s)
    \/ \E s \in Sessions : ArcSeal(s)
    \/ \E s \in Sessions : SpamFilter(s)
    \/ \E s \in Sessions : RunMilters(s)
    \/ \E s \in Sessions : RunMtaHooks(s)
    \/ \E s \in Sessions : ApplyModifications(s)
    \/ \E s \in Sessions : RunScript(s)
    \/ \E s \in Sessions : AddHeaders(s)
    \/ \E s \in Sessions : DkimSign(s)
    \/ \E s \in Sessions : CheckQuota(s)
    \/ \E s \in Sessions : Persist(s)

PtrNames == {NoneOpt, <<"mx.foobar.org", ".">>}

InitAuth ==
    InitWith({1}, CoreAuth, SessionData(Messages, {NoneV, "fail"}, {FALSE}, {FALSE}, {NoneOpt}))

InitHeaders ==
    InitWith({1}, CoreHeaders,
             SessionData({MsgPlain, MsgSigned(1)}, {NoneV, "fail"}, {FALSE}, {FALSE}, {NoneOpt}))

InitRewrite ==
    InitWith({1}, CoreRewrite, SessionData({MsgPlain}, {NoneV}, {FALSE}, {TRUE}, {NoneOpt}))

InitPlain ==
    InitWith({1}, CorePlain, SessionData({MsgPlain}, {NoneV}, BOOLEAN, BOOLEAN, PtrNames))

\* each setting of the two switches of the spam filter
InitSpam ==
    \E enabled \in BOOLEAN, spam_filter \in OptBool :
        InitWith({1}, [CorePlain EXCEPT !.spam_enabled = {enabled},
                                        !.spam_filter = {spam_filter}],
                 SessionData({MsgPlain}, {NoneV}, {FALSE}, {FALSE}, {NoneOpt}))

InitVerdict ==
    InitWith({1}, CoreVerdict,
             SessionData({MsgPlain}, {"fail"}, BOOLEAN, {FALSE}, {NoneOpt}))

\* messages with as many Received headers as the limit, one less and one more
InitLoop ==
    \E max \in {NoneOpt, SomeOpt(2)} :
        LET limit == IF max = NoneOpt THEN DefaultMaxReceivedHeaders ELSE max[1]
        IN InitWith({1}, [CorePlain EXCEPT !.max_received_headers = {max}],
                    SessionData({MsgReceived(n) : n \in (limit - 1)..(limit + 1)},
                                {NoneV}, {FALSE}, {FALSE}, {NoneOpt}))

\* recipients in every order of arrival
InitRcpt ==
    \E rcpt_to \in RcptOrders :
        InitWith({1}, CorePlain,
                 {[d EXCEPT !.rcpt_to = rcpt_to] :
                      d \in SessionData({MsgPlain}, {NoneV}, {FALSE}, {FALSE}, {NoneOpt})})

Init == InitAuth \/ InitHeaders \/ InitRewrite \/ InitPlain \/ InitRcpt \/ InitLoop
        \/ InitVerdict \/ InitSpam

Spec == Init /\ [][Next]_vars

\* Concurrent sessions of one server
InitConc ==
    InitWith(Sessions, CorePlain, SessionData({MsgPlain}, {NoneV}, {FALSE}, {FALSE}, {NoneOpt}))

SpecConc == InitConc /\ [][Next]_vars

\* Milters, hooks and a script may rewrite the message, which is then signed by
\* any list of signers; the history of the signers is kept.
InitSigners ==
    InitWith({1}, [CoreRewrite EXCEPT !.dkim_sign = {NoneOpt} \cup SignerLists],
             {[d EXCEPT !.history = TRUE] :
                 d \in SessionData({MsgPlain}, {NoneV}, {FALSE}, {TRUE}, {NoneOpt})})

SpecSigners == InitSigners /\ [][Next]_vars

\* DKIM and DMARC are verified and failure reports may be configured or not
CoreReports(dkim) ==
    [CorePlain EXCEPT !.dkim_verify = {dkim}, !.dmarc_verify = {"Strict"},
                      !.dkim_send = {NoneV, "rate"}, !.add_received = {"false"}]

Environments ==
    [ dkim_output : {<<r>> : r \in DkimResult},
      spf_result : {"Fail"},
      dkim_result : {"Pass", "Fail", "TempError"},
      policy : {"None", "Reject"},
      is_report : BOOLEAN,
      has_quota : BOOLEAN,
      queued : BOOLEAN ]

\* Two sessions receive the same message from the same client in the same
\* environment; what is left open in each run is whether reports are
\* configured, requested and enqueued.
InitPair ==
    \E dkim \in {"Relaxed", "Strict"}, environment \in Environments :
        InitWith({1, 2}, CoreReports(dkim),
                 {[d EXCEPT !.environment = SomeOpt(environment)] :
                      d \in SessionData({MsgSigned(1)}, {"fail"}, {FALSE}, {FALSE}, {NoneOpt})})

SpecPair == InitPair /\ [][Next]_vars

\* virtual queues as in the configuration of the virtual_queue test, with
\* schedules that differ in their notify intervals and their expiry
QueueQ1 == [virtual_queue |-> "q1", notify |-> <<3600, 7200>>, expiry |-> Duration(10000)]
QueueQ2 == [virtual_queue |-> "q2", notify |-> <<>>, expiry |-> Count(3)]
QueueNamedDefault == [virtual_queue |-> "dflt", notify |-> <<600>>, expiry |-> Duration(900)]

QueueTables ==
    { [n \in {"q1", "q2"} |-> IF n = "q1" THEN QueueQ1 ELSE QueueQ2],
      [n \in {"q1", "q2", "default"} |->
           IF n = "q1" THEN QueueQ1 ELSE IF n = "q2" THEN QueueQ2 ELSE QueueNamedDefault] }

QueueStrategies ==
    { NoStrategy,
      [rcpt |-> "ann@example.org", then |-> "q2", else |-> "q1"],
      [rcpt |-> "ann@example.org", then |-> "q9", else |-> NoneV] }

RcptFlagSets ==
    { {}, {"NOTIFY_SUCCESS"}, {"NOTIFY_NEVER", "OTHER"}, {"OTHER"}, {"NOTIFY_DELAY"},
      {"NOTIFY_FAILURE", "NOTIFY_DELAY"} }

DeliverByValues == {MinI64, -20000, -10000, -5000, -100, 0, 100, 5000, 20000, MaxI64}

FutureReleaseValues == {0, 60}

\* messages with and without a deadline and a deferred release, to recipients
\* with and without NOTIFY flags, under each queue configuration
InitSchedule ==
    \E queue \in QueueStrategies, virtual_queues \in QueueTables :
        InitWith({1}, [CorePlain EXCEPT !.queue = queue, !.virtual_queues = virtual_queues],
                 {[d EXCEPT !.rcpt_to = <<Rcpt("Jane@Example.org", "jane@example.org", 2, {}),
                                          Rcpt("ann@example.org", "ann@example.org", 1, flags)>>,
                            !.mail_from.flags = mail_flags,
                            !.future_release = future_release,
                            !.delivery_by = delivery_by] :
                      d \in SessionData({MsgPlain}, {NoneV}, {FALSE}, {FALSE}, {NoneOpt}),
                      flags \in RcptFlagSets,
                      mail_flags \in {{}, {"MAIL_BY_RETURN"}, {"MAIL_BY_RETURN", "OTHER"}},
                      future_release \in FutureReleaseValues,
                      delivery_by \in DeliverByValues})

SpecSchedule == InitSchedule /\ [][Next]_vars

-----------------------------------------------------------------------------
\* Concurrent sessions hand messages to the queue while the queue managers run:
\* two recipients of every message, one in each virtual queue
CoreQueue ==
    [CorePlain EXCEPT !.queue = [rcpt |-> "ann@example.org", then |-> "q2", else |-> "q1"],
                      !.virtual_queues = [n \in {"q1", "q2"} |->
                                              IF n = "q1" THEN QueueQ1 ELSE QueueQ2]]

QueueData ==
    {[d EXCEPT !.rcpt_to = <<Rcpt("Jane@Example.org", "jane@example.org", 2, {}),
                             Rcpt("ann@example.org", "ann@example.org", 1, {})>>] :
         d \in SessionData({MsgPlain}, {NoneV}, {FALSE}, {FALSE}, {NoneOpt})}

InitManagers == InitWith({1, 2}, CoreQueue, QueueData)

\* the managers find their work by the timeout of their wait alone
NextManagers ==
    \/ Next
    \/ \E m \in Managers : OnTimeout(m)
    \/ \E m \in Managers : \E e \in snapshot[m] : TryLock(m, e)
    \/ \E m \in Managers : \E e \in in_flight[m] : Deliver(m, e)

\* every manager is a task of the runtime: its wait times out, and the tasks it
\* spawned run to their end
FairManagers ==
    \A m \in Managers :
        /\ WF_vars(OnTimeout(m))
        /\ WF_vars(\E e \in snapshot[m] : TryLock(m, e))
        /\ WF_vars(\E e \in in_flight[m] : Deliver(m, e))

SpecManagers == InitManagers /\ [][NextManagers]_vars /\ FairManagers

\* One session hands a message to the queue while the managers run and Refresh
\* events may or may not be sent to them; no Refresh has to be sent or taken
InitQueue == InitWith({1}, CoreQueue, QueueData)

NextQueue ==
    \/ NextManagers
    \/ \E m \in Managers : SendRefresh(m)
    \/ \E m \in Managers : OnRefresh(m)

SpecQueue == InitQueue /\ [][NextQueue]_vars /\ FairManagers

\* messages with and without each of Return-Path, Date and Message-ID, under
\* each setting of add_return_path, add_date and add_message_id
InitMissingHeaders ==
    \E add_return_path \in OptBool, add_date \in OptBool, add_message_id \in OptBool :
        InitWith({1}, [CorePlain EXCEPT !.add_return_path = {add_return_path},
                                        !.add_date = {add_date},
                                        !.add_message_id = {add_message_id}],
                 SessionData(MessagesWithSome, {NoneV}, {FALSE}, {FALSE}, {NoneOpt}))

SpecMissingHeaders == InitMissingHeaders /\ [][Next]_vars

\* Each run may have milters, hooks and a script configured or not.
CoreOptionalRewriters ==
    [CorePlain EXCEPT !.milters = BOOLEAN, !.hooks = BOOLEAN, !.script = {NoneV, "script"},
                      !.add_received = {"false"}, !.add_auth_results = {NoneV}]

\* what the rewriters answer when they are asked: nothing to change, or a
\* header to add
RewriterEnvironments ==
    [ is_report : {FALSE},
      has_quota : BOOLEAN,
      queued : BOOLEAN,
      milter_ok : {TRUE},
      milter_modifications : {<<>>} \cup {<<m>> : m \in {x \in MilterModification :
                                                               x.kind = "AddHeader"}},
      hook_ok : {TRUE},
      hook_modifications : {<<>>} \cup {<<m>> : m \in {x \in HookModification :
                                                             x.kind = "AddHeader"}},
      script_result : {r \in ScriptResult : r.kind = "Accept" /\ Len(r.modifications) <= 1} ]

\* Two sessions receive the same message in the same environment; each run
\* has its own choice of the rewriters that are configured.
InitRewritePair ==
    \E environment \in RewriterEnvironments :
        InitWith({1, 2}, CoreOptionalRewriters,
                 {[d EXCEPT !.environment = SomeOpt(environment)] :
                      d \in SessionData({MsgPlain}, {NoneV}, {FALSE}, {FALSE}, {NoneOpt})})

SpecRewritePair == InitRewritePair /\ [][Next]_vars

-----------------------------------------------------------------------------
(* Properties *)

StageOrder ==
    <<"parse", "loop", "dkim", "arc", "dmarc", "report", "trace", "seal", "spam", "milter",
      "hook", "apply", "script", "headers", "sign", "quota", "persist">>

StageIndex(stage) == CHOOSE i \in 1..Len(StageOrder) : StageOrder[i] = stage

IsQueuedReply(r) ==
    /\ Len(r) >= 4
    /\ r[1] = "250 2.0.0 Message queued with id "
    /\ r[Len(r) - 1] = "."
    /\ r[Len(r)] = CRLF

\* r is a reply that the stage may end the run with
ReplyOfStage(stage, r) ==
    CASE stage = "parse" -> r = ReplyParseFailed
      [] stage = "loop" -> r = ReplyLoop
      [] stage = "dkim" -> r \in {ReplyDkimTemp, ReplyDkimPerm}
      [] stage = "arc" -> r \in {ReplyArcTemp, ReplyArcPerm}
      [] stage = "dmarc" -> r \in {ReplyDmarcTemp, ReplyDmarcPerm}
      [] stage = "report" -> r = ReplyQueuedForDelivery
      [] stage = "spam" -> r \in {ReplyQueuedForDelivery, ReplySpam}
      [] stage = "milter" -> r = ReplyMilterReject
      [] stage = "hook" -> r = ReplyHookReject
      [] stage = "script" -> r \in {ReplyScriptReject, ReplyQueuedForDelivery}
      [] stage = "quota" -> r = ReplyFull
      [] stage = "persist" -> r = ReplyUnable \/ IsQueuedReply(r)
      [] OTHER -> FALSE

Ran(s, stage) == Len(trace[s]) >= StageIndex(stage)

JustRan(s, stage) == trace[s] # <<>> /\ Last(trace[s]) = stage

\* nothing a stage does is visible before that stage has run
NoEffectBeforeStage(s) ==
    /\ ~Ran(s, "parse") /\ pc[s] # "idle" => data[s].message # <<>>
    /\ ~Ran(s, "dkim") => [session |-> s, kind |-> "dkim"] \notin report_queue
    /\ ~Ran(s, "dmarc") => [session |-> s, kind |-> "dmarc"] \notin report_queue
    /\ ~Ran(s, "report") => s \notin analyzed
    /\ ~Ran(s, "trace") => local[s].message_id = NoneOpt /\ local[s].headers = <<>>
    /\ ~Ran(s, "hook") => local[s].hook_queue_id = NoneOpt
    /\ ~Ran(s, "apply") => local[s].edited_message = NoneOpt
    /\ ~Ran(s, "headers") /\ pc[s] # "idle" =>
           local[s].message = NoneOpt /\ data[s].rcpt_to # <<>>
    /\ ~Ran(s, "quota") => \A q \in quota_calls : q.span_id # s
    /\ ~Ran(s, "persist") =>
           (\A m \in store : m.span_id # s) /\ state[s] = <<"Data">>

\* C1: the stages run in the fixed order parse, loop-check, DKIM, ARC, DMARC,
\* report, trace headers, ARC seal, spam filter, milter, MTA hook, apply,
\* script, Return-Path/Date/Message-ID, DKIM sign, size and quota, persist;
\* the run ends with a reply of the last stage that ran, and no effect of a
\* later stage has taken place.
C1_StageOrder ==
    \A s \in Sessions :
        LET n == Len(trace[s])
        IN /\ n <= Len(StageOrder)
           /\ trace[s] = SubSeq(StageOrder, 1, n)
           /\ (reply[s] # <<>>) <=> (pc[s] = "done")
           /\ pc[s] = "done" => n >= 1 /\ ReplyOfStage(StageOrder[n], reply[s])
           /\ pc[s] \notin {"done", "idle"} => pc[s] = StageOrder[n + 1]
           /\ NoEffectBeforeStage(s)

C1_Witness ==
    \E s \in Sessions :
        /\ pc[s] = "done"
        /\ reply[s] = ReplyScriptReject
        /\ Len(trace[s]) = 13
        /\ local[s].headers # <<>>
        /\ store = {}

DkimRejectReplies == {ReplyDkimTemp, ReplyDkimPerm}
DmarcRejectReplies == {ReplyDmarcTemp, ReplyDmarcPerm}

\* C2: a run that ends with a strict DKIM or a strict DMARC rejection has not
\* persisted the message, has not asked for quota, and has not set the
\* session state to Accepted.
C2_RejectNotPersisted ==
    \A s \in Sessions :
        reply[s] \in DkimRejectReplies \cup DmarcRejectReplies =>
            /\ \A m \in store : m.span_id # s
            /\ \A q \in quota_calls : q.span_id # s
            /\ state[s][1] # "Accepted"

C2_Witness ==
    \E s \in Sessions :
        /\ pc[s] = "done"
        /\ reply[s] = ReplyDmarcPerm
        /\ [session |-> s, kind |-> "dmarc"] \in report_queue
        /\ store = {} /\ quota_calls = {}

HasResult(results, r) == \E i \in 1..Len(results) : results[i] = r

\* C3: after the DKIM stage, if the strategy is strict and no result is Pass
\* (an empty list included), the reply is 451 4.7.20 exactly if some result
\* is TempError and 550 5.7.20 otherwise; if the strategy is not strict or a
\* result is Pass there is no DKIM rejection; verification runs iff
\* dkim.verify or dmarc.verify is enabled.
C3_DkimReject ==
    \A s \in Sessions :
        /\ reply[s] \in DkimRejectReplies => JustRan(s, "dkim")
        /\ JustRan(s, "dkim") =>
             LET out == local[s].dkim_output
                 runs == local[s].dkim \in {"Relaxed", "Strict"}
                         \/ local[s].dmarc \in {"Relaxed", "Strict"}
             IN /\ ~runs => out = <<>>
                /\ IF local[s].dkim = "Strict" /\ ~HasResult(out, "Pass")
                   THEN /\ pc[s] = "done"
                        /\ (reply[s] = ReplyDkimTemp) <=> HasResult(out, "TempError")
                        /\ (reply[s] = ReplyDkimPerm) <=> ~HasResult(out, "TempError")
                   ELSE reply[s] = <<>> /\ pc[s] = "arc"

C3_Witness ==
    \E s \in Sessions :
        /\ JustRan(s, "dkim")
        /\ local[s].dkim_output = <<"Fail", "TempError">>
        /\ reply[s] = ReplyDkimTemp

\* C4: after the DMARC stage, DMARC was evaluated iff an SPF MAIL FROM
\* outcome is present and dmarc.verify is enabled; the run is rejected
\* exactly when it was evaluated, dmarc.verify is strict, the policy is
\* Reject and neither the SPF nor the DKIM result is Pass, with 451 4.7.1 if
\* one of the two results is TempError and 550 5.7.1 otherwise.
C4_DmarcReject ==
    \A s \in Sessions :
        /\ reply[s] \in DmarcRejectReplies => JustRan(s, "dmarc")
        /\ JustRan(s, "dmarc") =>
             LET evaluated == local[s].dmarc_output # NoneOpt
             IN /\ evaluated <=> (data[s].spf_mail_from # NoneV
                                  /\ local[s].dmarc \in {"Relaxed", "Strict"})
                /\ IF evaluated
                      /\ local[s].dmarc = "Strict"
                      /\ local[s].dmarc_output[1].policy = "Reject"
                      /\ local[s].dmarc_output[1].spf_result # "Pass"
                      /\ local[s].dmarc_output[1].dkim_result # "Pass"
                   THEN /\ pc[s] = "done"
                        /\ reply[s] =
                             IF local[s].dmarc_output[1].spf_result = "TempError"
                                \/ local[s].dmarc_output[1].dkim_result = "TempError"
                             THEN ReplyDmarcTemp ELSE ReplyDmarcPerm
                   ELSE reply[s] = <<>> /\ pc[s] = "report"

C4_Witness ==
    \E s \in Sessions :
        /\ JustRan(s, "dmarc")
        /\ local[s].dmarc_output # NoneOpt
        /\ local[s].dmarc_output[1].spf_result = "Fail"
        /\ local[s].dmarc_output[1].dkim_result = "TempError"
        /\ reply[s] = ReplyDmarcTemp

\* C5: after the ARC stage, ARC was verified iff arc.verify is enabled or a
\* sealer is configured; if the strategy is strict and the result is neither
\* Pass nor None the reply is 451 4.7.29 for TempError and 550 5.7.29
\* otherwise; in every other case, a configured sealer included, the run
\* goes on without an ARC rejection.
C5_ArcReject ==
    \A s \in Sessions :
        /\ reply[s] \in {ReplyArcTemp, ReplyArcPerm} => JustRan(s, "arc")
        /\ JustRan(s, "arc") =>
             LET verified == local[s].arc_output # NoneOpt
             IN /\ verified <=> (local[s].arc \in {"Relaxed", "Strict"}
                                 \/ local[s].arc_sealer # NoneV)
                /\ IF verified
                      /\ local[s].arc = "Strict"
                      /\ local[s].arc_output[1].result \notin {"Pass", "None"}
                   THEN /\ pc[s] = "done"
                        /\ reply[s] = IF local[s].arc_output[1].result = "TempError"
                                      THEN ReplyArcTemp ELSE ReplyArcPerm
                   ELSE reply[s] = <<>> /\ pc[s] = "dmarc"

C5_Witness ==
    \E s \in Sessions :
        /\ JustRan(s, "arc")
        /\ local[s].arc = "Strict"
        /\ local[s].arc_sealer # NoneV
        /\ local[s].arc_output # NoneOpt
        /\ local[s].arc_output[1].result = "TempError"
        /\ reply[s] = ReplyArcTemp

LowerHexValue(c) ==
    CASE c = "0" -> 0 [] c = "1" -> 1 [] c = "2" -> 2 [] c = "3" -> 3 [] c = "4" -> 4
      [] c = "5" -> 5 [] c = "6" -> 6 [] c = "7" -> 7 [] c = "8" -> 8 [] c = "9" -> 9
      [] c = "a" -> 10 [] c = "b" -> 11 [] c = "c" -> 12 [] c = "d" -> 13
      [] c = "e" -> 14 [] c = "f" -> 15 [] OTHER -> -1

UpperHexValue(c) ==
    CASE c = "0" -> 0 [] c = "1" -> 1 [] c = "2" -> 2 [] c = "3" -> 3 [] c = "4" -> 4
      [] c = "5" -> 5 [] c = "6" -> 6 [] c = "7" -> 7 [] c = "8" -> 8 [] c = "9" -> 9
      [] c = "A" -> 10 [] c = "B" -> 11 [] c = "C" -> 12 [] c = "D" -> 13
      [] c = "E" -> 14 [] c = "F" -> 15 [] OTHER -> -1

DigitValue(c, upper) == IF upper THEN UpperHexValue(c) ELSE LowerHexValue(c)

RECURSIVE HexValue(_, _)
HexValue(digits, upper) ==
    IF digits = <<>> THEN 0
    ELSE 16 * HexValue(SubSeq(digits, 1, Len(digits) - 1), upper)
         + DigitValue(Last(digits), upper)

\* digits is the hexadecimal numeral of id, in the given case, without a leading zero
IsHexOf(digits, id, upper) ==
    /\ digits # <<>>
    /\ \A i \in 1..Len(digits) : DigitValue(digits[i], upper) >= 0
    /\ Len(digits) > 1 => digits[1] # "0"
    /\ HexValue(digits, upper) = id

ReplyId(r) == SubSeq(r, 2, Len(r) - 2)

HasReceived(headers) == \E i \in 1..Len(headers) : headers[i] = "Received: from "

\* the digits between " id " and the ";" that ends the Received header's id
ReceivedId(headers) ==
    LET i == CHOOSE k \in 1..Len(headers) : headers[k] = " id "
        j == CHOOSE k \in (i + 1)..Len(headers) :
                 /\ headers[k] = ";\r\n\t"
                 /\ \A l \in (i + 1)..(k - 1) : headers[l] # ";\r\n\t"
    IN SubSeq(headers, i + 1, j - 1)

Persisted(s) == {m \in store : m.span_id = s}

\* C6: the session state is Accepted(id) and the reply is "250 2.0.0 Message
\* queued with id <hex>." exactly if the quota check passed and the message
\* was persisted; then the reply's lowercase hex id, the Received header's
\* uppercase hex id, the id given to the MTA hook and the queue id of the
\* persisted message are the same number.
C6_AcceptedId ==
    \A s \in Sessions :
        LET accepted == state[s][1] = "Accepted"
            queued == IsQueuedReply(reply[s])
        IN /\ accepted <=> queued
           /\ queued <=> Persisted(s) # {}
           /\ Persisted(s) # {} =>
                 JustRan(s, "persist") /\ \E q \in quota_calls : q.span_id = s
           /\ pc[s] = "done" /\ JustRan(s, "persist") /\ Persisted(s) = {} =>
                 reply[s] = ReplyUnable
           /\ pc[s] = "done" /\ JustRan(s, "quota") => reply[s] = ReplyFull
           /\ \A m \in Persisted(s) :
                 LET id == state[s][2]
                 IN /\ IsHexOf(ReplyId(reply[s]), id, FALSE)
                    /\ m.queue_id = id
                    /\ m.message.queue_id = id
                    /\ local[s].message_id = SomeOpt(id)
                    /\ local[s].hook_queue_id = SomeOpt(id)
                    /\ HasReceived(m.headers) => IsHexOf(ReceivedId(m.headers), id, TRUE)

C6_Witness ==
    \E s \in Sessions :
        /\ state[s] = <<"Accepted", QueueIdSeed>>
        /\ reply[s] = <<"250 2.0.0 Message queued with id ", "f", "e", ".", CRLF>>
        /\ \E m \in Persisted(s) :
              HasReceived(m.headers) /\ ReceivedId(m.headers) = <<"F", "E">>

\* C7: no two runs hold the same queue id, every id handed out is greater
\* than all ids handed out before it, and a Received header carries the id
\* that its own run was given (so the id exists when the header is written).
C7_IdsInv ==
    \A s \in Sessions :
        /\ \A u \in Sessions \ {s} :
              local[s].message_id # NoneOpt => local[u].message_id # local[s].message_id
        /\ local[s].message_id # NoneOpt => local[s].message_id[1] < queue_id_gen
        /\ local[s].headers # <<>> => local[s].message_id # NoneOpt
        /\ HasReceived(local[s].headers) =>
              IsHexOf(ReceivedId(local[s].headers), local[s].message_id[1], TRUE)
        /\ \A m \in Persisted(s) : m.queue_id = local[s].message_id[1]

C7_IdsStep ==
    \A s \in Sessions :
        local[s].message_id # local'[s].message_id =>
            /\ local[s].message_id = NoneOpt
            /\ local'[s].message_id # NoneOpt
            /\ \A u \in Sessions :
                  local[u].message_id # NoneOpt =>
                      local'[s].message_id[1] > local[u].message_id[1]

C7_UniqueIncreasingIds == []C7_IdsInv /\ [][C7_IdsStep]_vars

C7_Witness ==
    \E s, u \in Sessions :
        /\ s # u
        /\ pc[s] = "done" /\ pc[u] = "done"
        /\ Persisted(s) # {} /\ Persisted(u) # {}
        /\ local[s].message_id[1] < local[u].message_id[1]
        /\ HasReceived(local[s].headers) /\ HasReceived(local[u].headers)

\* the place of a header in the prepended block, 0 for what starts no header
HeaderRank(token) ==
    CASE token = "Received: from " -> 1
      [] token = "Authentication-Results: " -> 2
      [] token = "Received-SPF: " -> 3
      [] token \in {"ARC-Seal: i=1; cv=none", "ARC-Message-Signature: i=1",
                    "ARC-Authentication-Results: i=1; "} -> 4
      [] token = "X-Spam-Status: Yes" -> 5
      [] token \in {"X-Script", "X-Script-Folded"} -> 6
      [] token = "Return-Path: <" -> 7
      [] token = "Date: " -> 8
      [] token = "Message-ID: " -> 9
      [] token = "DKIM-Signature: v=1; a=" -> 10
      [] OTHER -> 0

HeaderRanks(headers) == {HeaderRank(headers[i]) : i \in 1..Len(headers)} \ {0}

\* no header is preceded by a header of a later place
InPrependOrder(headers) ==
    \A j \in 1..Len(headers) :
        LET rank == HeaderRank(headers[j])
        IN rank > 0 => \A i \in 1..(j - 1) : HeaderRank(headers[i]) <= rank

\* C8: in the prepended header block of every persisted message the headers
\* present come in the order Received, Authentication-Results, Received-SPF,
\* ARC set, spam-filter headers, script headers, Return-Path, Date,
\* Message-ID, DKIM signatures.
C8_HeaderOrder ==
    /\ \A m \in store : InPrependOrder(m.headers)
    /\ \A s \in Sessions : InPrependOrder(local[s].headers)

C8_Witness ==
    \E m \in store : HeaderRanks(m.headers) = 1..10

\* every message a client of the model sends
ReceivedMessages ==
    Messages \cup MessagesWithSome
             \cup {MsgReceived(n) : n \in 0..(DefaultMaxReceivedHeaders + 1)}

\* C9: what is handed to persistence is the prepended header block and the
\* body, the body being the edited message if a rewriter produced one and
\* the message as received otherwise, unchanged.
C9_PersistedBytes ==
    \A m \in store :
        LET s == m.span_id
        IN /\ m.headers = local[s].headers
           /\ local[s].edited_message = NoneOpt => m.raw_message = local[s].raw_message
           /\ local[s].edited_message # NoneOpt => m.raw_message = local[s].edited_message[1]
           /\ local[s].raw_message \in ReceivedMessages

C9_Witness ==
    \E m \in store :
        /\ local[m.span_id].edited_message # NoneOpt
        /\ m.raw_message = BodyScript
        /\ m.raw_message # local[m.span_id].raw_message
        /\ m.headers # <<>>

\* C10: at the quota check, and in the persisted message, message.size is
\* the byte length of the final prepended headers, DKIM signatures
\* included, plus the byte length of the body that is persisted.
C10_Size ==
    /\ \A q \in quota_calls :
          LET s == q.span_id
              body == IF local[s].edited_message = NoneOpt THEN local[s].raw_message
                      ELSE local[s].edited_message[1]
          IN /\ q.size = ByteLen(local[s].headers) + ByteLen(body)
             /\ local[s].message[1].size = q.size
    /\ \A m \in store : m.message.size = ByteLen(m.headers) + ByteLen(m.raw_message)

C10_Witness ==
    \E q \in quota_calls :
        /\ local[q.span_id].edited_message # NoneOpt
        /\ 10 \in HeaderRanks(local[q.span_id].headers)
        /\ q.size = ByteLen(local[q.span_id].headers)
                     + ByteLen(local[q.span_id].edited_message[1])
        /\ q.size > ByteLen(local[q.span_id].headers)
        /\ q.size > ByteLen(local[q.span_id].raw_message)

IsReplaceBody(m) == m.kind = "ReplaceBody"

HasReplaceBody(modifications) ==
    \E i \in 1..Len(modifications) : IsReplaceBody(modifications[i])

\* C11: the merged list is the milter's modifications followed by the hook's,
\* in arrival order, with the milter's ReplaceBody left out exactly if the
\* hook emitted a ReplaceBody too.
C11_MilterReplaceBody ==
    \A s \in Sessions :
        JustRan(s, "hook") /\ pc[s] # "done" =>
            LET milter == local[s].milter_modifications
                hook == local[s].hook_modifications
                Kept(m) == ~IsReplaceBody(m)
            IN local[s].modifications =
                   (IF HasReplaceBody(hook) THEN SelectSeq(milter, Kept)
                    ELSE milter) \o hook

\* the replies that are literals of queue_message
LiteralReplies ==
    {<<"250 2.0.0 Message queued for delivery.", "\r\n">>,
     <<"450 4.4.6 Too many Received headers. Possible loop detected.", "\r\n">>,
     <<"451 4.7.20 No passing DKIM signatures found.", "\r\n">>,
     <<"550 5.7.20 No passing DKIM signatures found.", "\r\n">>,
     <<"451 4.7.29 ARC validation failed.", "\r\n">>,
     <<"550 5.7.29 ARC validation failed.", "\r\n">>,
     <<"451 4.7.1 Email temporarily rejected per DMARC policy.", "\r\n">>,
     <<"550 5.7.1 Email rejected per DMARC policy.", "\r\n">>,
     <<"550 5.7.1 Message rejected due to excessive spam score.", "\r\n">>,
     <<"550 5.7.7 Failed to parse message.", "\r\n">>,
     <<"452 4.3.1 Mail system full, try again later.", "\r\n">>,
     <<"451 4.3.5 Unable to accept message at this time.", "\r\n">>}

\* "250 2.0.0 Message queued with id <hex>." followed by CRLF
IsQueuedWithId(r) ==
    /\ IsQueuedReply(r)
    /\ \A i \in 2..(Len(r) - 2) : LowerHexValue(r[i]) >= 0

IsListedReply(r) ==
    /\ r # <<>>
    /\ Last(r) = "\r\n"
    /\ r \in LiteralReplies \/ IsQueuedWithId(r)

\* the run ended with the reply that a milter, an MTA hook or the script gave
RewriterRejected(s) ==
    \/ JustRan(s, "milter") /\ reply[s] = ReplyMilterReject
    \/ JustRan(s, "hook") /\ reply[s] = ReplyHookReject
    \/ JustRan(s, "script") /\ reply[s] = ReplyScriptReject

BuiltFrom(recipients) ==
    [i \in 1..Len(recipients) |->
        [address |-> recipients[i].address, address_lcase |-> recipients[i].address_lcase]]

InputOf(rcpt_to) ==
    [i \in 1..Len(rcpt_to) |->
        [address |-> rcpt_to[i].address, address_lcase |-> rcpt_to[i].address_lcase]]

IsPermutation(p, q) ==
    /\ Len(p) = Len(q)
    /\ \E f \in [1..Len(p) -> 1..Len(q)] :
          /\ \A i, j \in 1..Len(p) : f[i] = f[j] => i = j
          /\ \A i \in 1..Len(p) : p[i] = q[f[i]]

ReceivedLines(s) ==
    Cardinality({i \in 1..Len(local[s].raw_message) :
                     local[s].raw_message[i] = "Received: from a by b;\r\n"})

\* the limits that the configured expression can evaluate to
ReceivedLimits == {IF cfg = <<>> THEN 50 ELSE cfg[1] : cfg \in core.max_received_headers}

\* C14: a parsed message gets "450 4.4.6 Too many Received headers. Possible
\* loop detected." exactly if it has more Received headers than the
\* configured maximum, which is 50 when none is configured; a message with
\* exactly the maximum passes.
C14_LoopCheck ==
    \A s \in Sessions :
        /\ reply[s] = ReplyLoop => JustRan(s, "loop")
        /\ JustRan(s, "loop") =>
              /\ pc[s] = "done" <=> reply[s] = ReplyLoop
              /\ pc[s] = "done" => \E limit \in ReceivedLimits : ReceivedLines(s) > limit
              /\ pc[s] # "done" => \E limit \in ReceivedLimits : ReceivedLines(s) <= limit

C14_Witness ==
    \E s \in Sessions :
        /\ JustRan(s, "loop")
        /\ core.max_received_headers = {NoneOpt}
        /\ ReceivedLines(s) = 51
        /\ reply[s] = <<"450 4.4.6 Too many Received headers. Possible loop detected.", CRLF>>

RecognisedLines ==
    {"Received: from a by b;\r\n", "Date: Thu, 5 Nov 2026 12:00:00 +0000\r\n",
     "Message-ID: <1@example.org>\r\n", "Subject: hello\r\n",
     "DKIM-Signature: v=1; d=foobar.org; b=abc\r\n"}

\* the header block of the message holds a header with a name that the
\* parser knows
HasRecognisedHeader(bytes) ==
    \E i \in 1..Len(bytes) :
        /\ bytes[i] \in RecognisedLines
        /\ \A k \in 1..(i - 1) : bytes[k] \in RecognisedLines \cup {"X-Other: value\r\n"}

\* C15: the reply is "550 5.7.7 Failed to parse message." exactly if the
\* message does not parse or has no header with a recognised name, and then
\* the parse was the only stage: nothing was verified, reported, analysed,
\* given a queue id, rewritten, checked against the quota or persisted.
C15_ParseFailed ==
    \A s \in Sessions :
        /\ JustRan(s, "parse") =>
              (reply[s] = ReplyParseFailed <=> ~HasRecognisedHeader(local[s].raw_message))
        /\ reply[s] = ReplyParseFailed =>
              /\ trace[s] = <<"parse">>
              /\ pc[s] = "done"
              /\ local[s] = [LocalInit EXCEPT !.raw_message = local[s].raw_message]
              /\ \A k \in {"dkim", "dmarc"} : [session |-> s, kind |-> k] \notin report_queue
              /\ s \notin analyzed
              /\ (\A u \in Sessions \ {s} : pc[u] = "idle") => queue_id_gen = QueueIdSeed
              /\ \A q \in quota_calls : q.span_id # s
              /\ Persisted(s) = {}
              /\ state[s] = <<"Data">>

C15_Witness ==
    \E s \in Sessions :
        /\ local[s].raw_message = <<"X-Other: value\r\n", CRLF, "body text\r\n">>
        /\ reply[s] = <<"550 5.7.7 Failed to parse message.", CRLF>>
        /\ pc[s] = "done"

\* the verdict of a DMARC evaluation with the given SPF and DKIM results
VerdictOf(spf_result, dkim_result) ==
    CASE spf_result = "Pass" \/ dkim_result = "Pass" -> "Pass"
      [] spf_result # "Pass" /\ dkim_result # "Pass" /\ spf_result # "None" -> spf_result
      [] spf_result = "None" /\ dkim_result \notin {"Pass", "None"} -> dkim_result
      [] OTHER -> "None"

C16_VerdictInv ==
    \A s \in Sessions :
        /\ JustRan(s, "dmarc") /\ pc[s] # "done" =>
              IF local[s].dmarc_output = NoneOpt
              THEN local[s].dmarc_result = NoneV
              ELSE local[s].dmarc_result =
                       VerdictOf(local[s].dmarc_output[1].spf_result,
                                 local[s].dmarc_output[1].dkim_result)
        /\ ~Ran(s, "dmarc") => local[s].dmarc_result = NoneV
        /\ local[s].spam_classify # NoneOpt =>
              local[s].spam_classify[1].dmarc_result = local[s].dmarc_result
        /\ local[s].script_params # NoneOpt =>
              local[s].script_params[1].dmarc_result = local[s].dmarc_result
        /\ \A m \in Persisted(s) :
              m.source.kind = "Unauthenticated" =>
                  (m.source.dmarc_pass <=> local[s].dmarc_result = "Pass")

\* once the DMARC stage has run, the verdict stays what it is
C16_VerdictStep ==
    \A s \in Sessions : Ran(s, "dmarc") => local'[s].dmarc_result = local[s].dmarc_result

\* C16: the DMARC verdict given to the spam filter, to the script and to the
\* message source is Pass if the SPF or the DKIM result of DMARC is Pass,
\* else the SPF result unless it is None, else the DKIM result unless it is
\* None, else None; there is no verdict when DMARC was not evaluated.
C16_EffectiveVerdict == []C16_VerdictInv /\ [][C16_VerdictStep]_vars

C16_Witness ==
    \E s \in Sessions :
        /\ JustRan(s, "script")
        /\ local[s].script_params # NoneOpt
        /\ local[s].script_params[1].dmarc_result = "TempError"
        /\ local[s].dmarc_result = "TempError"

\* C17: a message that is a report is handed to the report analyzer; with
\* forwarding disabled the reply is "250 2.0.0 Message queued for delivery."
\* and the message is not queued (no queue id, no quota check, nothing
\* persisted); with forwarding enabled the run goes on to the next stage.
C17_ReportShortCircuit ==
    \A s \in Sessions :
        /\ s \in analyzed => Ran(s, "report")
        /\ JustRan(s, "report") =>
              /\ s \in analyzed <=> local[s].is_report
              /\ pc[s] = "done" =>
                    /\ local[s].is_report
                    /\ FALSE \in core.analysis_forward
                    /\ reply[s] = <<"250 2.0.0 Message queued for delivery.", "\r\n">>
                    /\ local[s].message_id = NoneOpt
                    /\ local[s].headers = <<>>
                    /\ (\A u \in Sessions \ {s} : pc[u] = "idle") =>
                          queue_id_gen = QueueIdSeed
                    /\ \A q \in quota_calls : q.span_id # s
                    /\ Persisted(s) = {}
                    /\ state[s] = <<"Data">>
              /\ pc[s] # "done" =>
                    /\ pc[s] = "trace"
                    /\ local[s].is_report => TRUE \in core.analysis_forward

C17_Witness ==
    \E s \in Sessions :
        /\ JustRan(s, "report")
        /\ pc[s] = "done"
        /\ s \in analyzed
        /\ core.analysis_forward = {FALSE}
        /\ reply[s] = ReplyQueuedForDelivery

SpamClassified(s) == local[s].spam_classify # NoneOpt

C18_SpamInv ==
    \A s \in Sessions :
        /\ reply[s] = ReplySpam => JustRan(s, "spam")
        /\ JustRan(s, "spam") =>
              /\ SpamClassified(s) =>
                    TRUE \in core.spam_enabled /\ core.spam_filter \cap {"nil", "true"} # {}
              /\ ~SpamClassified(s) =>
                    FALSE \in core.spam_enabled \/ "false" \in core.spam_filter
              /\ pc[s] = "done" =>
                    /\ SpamClassified(s)
                    /\ reply[s] \in
                          {<<"250 2.0.0 Message queued for delivery.", "\r\n">>,
                           <<"550 5.7.1 Message rejected due to excessive spam score.", "\r\n">>}
                    /\ Persisted(s) = {}
                    /\ \A q \in quota_calls : q.span_id # s
                    /\ state[s] = <<"Data">>
              /\ pc[s] # "done" => pc[s] = "milter"

\* the spam filter stage leaves the prepended headers as they are or, on
\* Allow, appends the headers that the classifier returned
C18_SpamStep ==
    \A s \in Sessions :
        pc[s] = "spam" /\ pc'[s] # "spam" =>
            \/ local'[s].headers = local[s].headers
            \/ /\ local'[s].spam_classify # NoneOpt
               /\ pc'[s] = "milter"
               /\ local'[s].headers = local[s].headers \o <<"X-Spam-Status: Yes", "\r\n">>

\* C18: the classifier is invoked exactly if the spam filter is enabled and
\* the spam_filter flag of the session is true (true when not set); Discard
\* gives "250 2.0.0 Message queued for delivery." and Reject gives "550
\* 5.7.1 Message rejected due to excessive spam score.", both without
\* persisting anything; Allow appends the returned headers to the prepended
\* headers and the run goes on.
C18_SpamFilter == []C18_SpamInv /\ [][C18_SpamStep]_vars

C18_Witness ==
    \E s \in Sessions :
        /\ JustRan(s, "spam")
        /\ SpamClassified(s)
        /\ core.spam_enabled = {TRUE}
        /\ core.spam_filter = {"true"}
        /\ pc[s] = "milter"
        /\ Len(local[s].headers) >= 2
        /\ SubSeq(local[s].headers, Len(local[s].headers) - 1, Len(local[s].headers))
             = SpamHeaders

-----------------------------------------------------------------------------
(* C19: reports do not interfere with the reply or the stored message *)

SameReply(a, b) == a = b \/ (IsQueuedWithId(a) /\ IsQueuedWithId(b))

\* what was written to the store for a session, without the queue id
StoredFor(s) ==
    {[message |-> [m.message EXCEPT !.queue_id = 0], headers |-> m.headers,
      raw_message |-> m.raw_message, source |-> m.source] : m \in Persisted(s)}

ReportsOf(s) == {r.kind : r \in {q \in report_queue : q.session = s}}

\* C19: two runs of queue_message on the same message in the same
\* environment, which differ only in the DKIM failure reports and the DMARC
\* aggregate reports that were configured, requested or enqueued, end with
\* the same reply (up to the queue id) and the same stored message.
C19_ReportsDoNotInterfere ==
    \A s, u \in Sessions :
        pc[s] = "done" /\ pc[u] = "done" =>
            /\ SameReply(reply[s], reply[u])
            /\ StoredFor(s) = StoredFor(u)

\* both runs are rejected by the DMARC policy, one after enqueueing an
\* aggregate report and the other without one
C19_Witness ==
    \E s, u \in Sessions :
        /\ pc[s] = "done" /\ pc[u] = "done"
        /\ reply[s] = ReplyDmarcPerm /\ reply[u] = ReplyDmarcPerm
        /\ "dmarc" \in ReportsOf(s)
        /\ "dmarc" \notin ReportsOf(u)

-----------------------------------------------------------------------------
(* C20: rewriters that change nothing are as good as no rewriters *)

\* the environment in which every rewriter accepts the message as it is
Quiet(s) ==
    /\ data[s].environment # NoneOpt
    /\ LET environment == data[s].environment[1]
       IN /\ environment.milter_ok /\ environment.milter_modifications = <<>>
          /\ environment.hook_ok /\ environment.hook_modifications = <<>>
          /\ environment.script_result.kind = "Accept"
          /\ environment.script_result.modifications = <<>>

Rewriters == {"milter", "hook", "script"}

\* C20: a run in which the milters, the hooks and the script are configured
\* and return no modification ends with the same reply (up to the queue id)
\* and stores the same headers, body and envelope as a run on the same
\* message in which none of them is configured.
C20_QuietRewriters ==
    \A s, u \in Sessions :
        /\ pc[s] = "done" /\ pc[u] = "done"
        /\ Quiet(s) /\ Quiet(u)
        /\ local[s].configured = Rewriters /\ local[u].configured = {}
        => /\ SameReply(reply[s], reply[u])
           /\ StoredFor(s) = StoredFor(u)

\* both runs stored the message, one with every rewriter configured and
\* the other with none
C20_Witness ==
    \E s, u \in Sessions :
        /\ pc[s] = "done" /\ pc[u] = "done"
        /\ Quiet(s) /\ Quiet(u)
        /\ local[s].configured = Rewriters /\ local[u].configured = {}
        /\ Persisted(s) # {} /\ Persisted(u) # {}

-----------------------------------------------------------------------------
(* C21: no quota, or a store that does not take the message *)

NotAccepted(s) ==
    /\ state[s][1] # "Accepted"
    /\ Persisted(s) = {}
    /\ data[s].messages_sent = 0
    /\ local[s].message # NoneOpt =>
          /\ local[s].message[1].queue_id \notin blobs \cup queue_tx
          /\ \A e \in events : e.queue_id # local[s].message[1].queue_id

\* C21: when has_quota answers that the message does not fit, the reply is
\* 452 4.3.1 and the message is not handed to the store; when it fits and the
\* store does not take the message, the reply is 451 4.3.5; in both cases the
\* session is not Accepted and nothing of the message is in the store.
C21_FullOrUnable ==
    \A s \in Sessions :
        /\ local[s].has_quota = SomeOpt(FALSE) =>
              /\ pc[s] = "done" /\ reply[s] = ReplyFull
              /\ JustRan(s, "quota")
              /\ NotAccepted(s)
        /\ reply[s] = ReplyFull => local[s].has_quota = SomeOpt(FALSE)
        /\ JustRan(s, "persist") /\ Persisted(s) = {} =>
              /\ local[s].has_quota = SomeOpt(TRUE)
              /\ pc[s] = "done" /\ reply[s] = ReplyUnable
              /\ NotAccepted(s)
        /\ reply[s] = ReplyUnable => JustRan(s, "persist") /\ NotAccepted(s)

C21_Witness ==
    \E s \in Sessions :
        /\ pc[s] = "done"
        /\ local[s].has_quota = SomeOpt(TRUE)
        /\ reply[s] = ReplyUnable
        /\ NotAccepted(s)

-----------------------------------------------------------------------------
(* C24..C29: the recipients that build_message builds *)

\* build_message has built the message of session s and its input is still
\* at hand
Built(s) == JustRan(s, "headers")

BuiltRecipients(s) ==
    LET recipients == local[s].message[1].recipients
    IN {recipients[i] : i \in 1..Len(recipients)}

\* the element of rcpt_to a recipient was built from
RcptOf(s, recipient) ==
    LET rcpt_to == local[s].rcpt_to
    IN CHOOSE rcpt \in {rcpt_to[i] : i \in 1..Len(rcpt_to)} : rcpt.address = recipient.address

\* C24: a recipient with none of the NOTIFY flags DELAY, FAILURE, SUCCESS,
\* NEVER is stored with its flags and DELAY and FAILURE; a recipient with any
\* of them is stored with its flags unchanged; the other flags are kept in
\* both cases.
C24_NotifyFlags ==
    \A s \in Sessions :
        Built(s) =>
            \A recipient \in BuiltRecipients(s) :
                LET flags == RcptOf(s, recipient).flags
                IN /\ flags \cap NotifyFlags = {} =>
                        recipient.flags = flags \cup {"NOTIFY_DELAY", "NOTIFY_FAILURE"}
                   /\ flags \cap NotifyFlags # {} => recipient.flags = flags
                   /\ recipient.flags \ NotifyFlags = flags \ NotifyFlags

C24_Witness ==
    \E s \in Sessions :
        /\ Built(s)
        /\ \E recipient \in BuiltRecipients(s) :
              /\ RcptOf(s, recipient).flags = {"OTHER"}
              /\ recipient.flags = {"OTHER", "NOTIFY_DELAY", "NOTIFY_FAILURE"}

\* C25: the retry of every recipient is due at once when future_release is
\* 0 and future_release seconds later when it is greater; every recipient is
\* in status Scheduled.
C25_Retry ==
    \A s \in Sessions :
        Built(s) =>
            \A recipient \in BuiltRecipients(s) :
                /\ recipient.status = "Scheduled"
                /\ data[s].future_release = 0 => recipient.retry.due = 0
                /\ data[s].future_release > 0 =>
                        recipient.retry.due = data[s].future_release

C25_Witness ==
    \E s \in Sessions :
        /\ Built(s)
        /\ data[s].future_release > 0
        /\ \E recipient \in BuiltRecipients(s) :
              recipient.retry.due = data[s].future_release

\* the configuration of the virtual queue a recipient was assigned to
QueueOf(recipient) ==
    CHOOSE queue \in {core.virtual_queues[n] : n \in DOMAIN core.virtual_queues}
                       \cup {BuiltinQueue} :
        queue.virtual_queue = recipient.queue

FirstInterval(queue) == IF queue.notify = <<>> THEN 86400 ELSE Head(queue.notify)

\* C26: with delivery_by 0, the notify of a recipient is due future_release
\* plus the first notify interval of its queue (86400 s for a queue without
\* intervals) from now; its expires is Duration(future_release + t) for a
\* queue that expires after Duration(t) and Count(c) for a queue that expires
\* after Count(c).
C26_NoDeadline ==
    \A s \in Sessions :
        Built(s) /\ data[s].delivery_by = 0 =>
            \A recipient \in BuiltRecipients(s) :
                LET queue == QueueOf(recipient)
                IN /\ recipient.notify.due =
                          data[s].future_release + FirstInterval(queue)
                   /\ queue.expiry.kind = "Duration" =>
                          recipient.expires =
                              Duration(data[s].future_release + queue.expiry.value)
                   /\ queue.expiry.kind = "Count" => recipient.expires = queue.expiry

C26_Witness ==
    \E s \in Sessions :
        /\ Built(s) /\ data[s].delivery_by = 0 /\ data[s].future_release = 60
        /\ \E recipient \in BuiltRecipients(s) :
              /\ recipient.queue = "q1"
              /\ recipient.notify.due = 3660
              /\ recipient.expires = Duration(10060)
        /\ \E recipient \in BuiltRecipients(s) :
              /\ recipient.queue = "q2"
              /\ recipient.notify.due = 86460
              /\ recipient.expires = Count(3)

\* C27: with a delivery_by other than 0 and MAIL BY RETURN, the notify of a
\* recipient is due future_release plus the first notify interval of its
\* queue from now and its expires is Duration(|delivery_by|), whether
\* delivery_by is positive or negative.
C27_ByReturn ==
    \A s \in Sessions :
        Built(s) /\ data[s].delivery_by # 0
                 /\ "MAIL_BY_RETURN" \in local[s].message[1].flags =>
            \A recipient \in BuiltRecipients(s) :
                /\ recipient.notify.due =
                       data[s].future_release + FirstInterval(QueueOf(recipient))
                /\ recipient.expires = Duration(UnsignedAbs(data[s].delivery_by))

Min(a, b) == IF a <= b THEN a ELSE b

\* C28: with a delivery_by other than 0 and without MAIL BY RETURN, the
\* delay of notify, before future_release is added, is the smaller of
\* notify_at and the first notify interval of the queue, where notify_at is
\* delivery_by when that is positive and the expiry of the queue less
\* |delivery_by| when it is negative.
C28_NotifyDelay ==
    \A s \in Sessions :
        Built(s) /\ data[s].delivery_by # 0
                 /\ "MAIL_BY_RETURN" \notin local[s].message[1].flags =>
            \A recipient \in BuiltRecipients(s) :
                LET queue == QueueOf(recipient)
                    delay == recipient.notify.due - data[s].future_release
                IN /\ data[s].delivery_by > 0 =>
                        delay = Min(data[s].delivery_by, FirstInterval(queue))
                   /\ data[s].delivery_by < 0 /\ queue.expiry.kind = "Duration" =>
                        delay = Min(queue.expiry.value - UnsignedAbs(data[s].delivery_by),
                                    FirstInterval(queue))

\* what queue.strategy.schedule yields for a recipient
ScheduleName(recipient) ==
    IF core.queue.rcpt # NoneV /\ core.queue.rcpt = recipient.address_lcase
    THEN core.queue.then ELSE core.queue.else

\* C29: the virtual queue of a recipient is the one that
\* queue.strategy.schedule names for the envelope of that recipient, the
\* queue named "default" when the expression yields nothing, and the
\* built-in default queue when no queue has the name; every recipient has a
\* queue.
C29_QueuePerRecipient ==
    \A s \in Sessions :
        Built(s) =>
            \A recipient \in BuiltRecipients(s) :
                LET yielded == ScheduleName(recipient)
                    name == IF yielded = NoneV THEN "default" ELSE yielded
                IN /\ name \in DOMAIN core.virtual_queues =>
                        recipient.queue = core.virtual_queues[name].virtual_queue
                   /\ name \notin DOMAIN core.virtual_queues =>
                        recipient.queue = BuiltinQueue.virtual_queue
                   /\ recipient.queue # NoneV

\* two recipients of one message on different virtual queues
C29_Witness ==
    \E s \in Sessions :
        /\ Built(s)
        /\ \E r1, r2 \in BuiltRecipients(s) :
              /\ r1.address_lcase = "ann@example.org" /\ r1.queue = "q2"
              /\ r2.address_lcase = "jane@example.org" /\ r2.queue = "q1"

-----------------------------------------------------------------------------
(* C30: Return-Path, Date and Message-ID *)

\* the one value an expression of the configuration evaluates to
ValueOf(key) == CHOOSE v \in core[key] : TRUE

Appended(s, name) == \E i \in 1..Len(local[s].headers) : local[s].headers[i] = name

InMessage(s, name) == HasHeader(HeaderLines(local[s].raw_message), name)

\* C30: each of Return-Path, Date and Message-ID is appended to the
\* prepended headers exactly if the received message does not have that
\* header and the add_* expression of the header yields true or nothing.
C30_MissingHeaders ==
    \A s \in Sessions :
        Built(s) =>
            /\ Appended(s, "Return-Path: <") <=>
                   ~InMessage(s, "Return-Path") /\ UnwrapOrTrue(ValueOf("add_return_path"))
            /\ Appended(s, "Date: ") <=>
                   ~InMessage(s, "Date") /\ UnwrapOrTrue(ValueOf("add_date"))
            /\ Appended(s, "Message-ID: ") <=>
                   ~InMessage(s, "Message-ID") /\ UnwrapOrTrue(ValueOf("add_message_id"))

-----------------------------------------------------------------------------
(* C22: queue managers running concurrently over one queue store *)

Accepted(s) == state[s][1] = "Accepted"

\* the messages the remote host received with a recipient of the message of a session
RemoteOf(s, recipient) ==
    {r \in remote : /\ r.msg.queue_id = state[s][2]
                    /\ recipient.address_lcase \in r.msg.rcpts}

EventOf(s, recipient) ==
    [due |-> recipient.retry.due, queue_id |-> state[s][2], queue_name |-> recipient.queue]

Drained == store = {} /\ events = {} /\ blobs = {}

C22_Inv ==
    /\ \A s \in Sessions :
          Accepted(s) =>
              \A recipient \in BuiltRecipients(s) :
                  Cardinality(RemoteOf(s, recipient)) =
                      IF EventOf(s, recipient) \in events THEN 0 ELSE 1
    /\ \A r \in remote : r.copy = 1
    /\ (Drained /\ \A s \in Sessions : pc[s] \in {"done", "idle"}) =>
          Cardinality(remote) = 2 * Cardinality({s \in Sessions : Accepted(s)})

-----------------------------------------------------------------------------
(* C23: the Refresh published at handoff, and delivery by polling *)

DeliveredAll(s) ==
    /\ Accepted(s)
    /\ \A recipient \in BuiltRecipients(s) : RemoteOf(s, recipient) # {}

C23_Inv ==
    /\ \A s \in Sessions : Accepted(s) => state[s][2] \in queue_tx
    /\ \A r \in remote : r.copy = 1

-----------------------------------------------------------------------------
(* C31: rejection by a milter, an MTA hook or the script; script Discard *)

QuotaCalls(s) == {c \in quota_calls : c.span_id = s}

NothingQueued(s) ==
    /\ Persisted(s) = {}
    /\ QuotaCalls(s) = {}
    /\ state[s][1] # "Accepted"

\* C31: when a milter, an MTA hook or the script rejects, the function returns at
\* that stage with the bytes the rewriter supplied, the message is not persisted,
\* has_quota is not called and the state is not Accepted; when the script discards,
\* the reply is 250 2.0.0 Message queued for delivery. and nothing is persisted.
C31_RewriterReject ==
    \A s \in Sessions :
        /\ local[s].response # NoneOpt =>
              /\ pc[s] = "done"
              /\ reply[s] = local[s].response[1]
              /\ JustRan(s, "milter") \/ JustRan(s, "hook") \/ JustRan(s, "script")
              /\ NothingQueued(s)
        /\ local[s].script_result = "Discard" =>
              /\ pc[s] = "done"
              /\ JustRan(s, "script")
              /\ reply[s] = ReplyQueuedForDelivery
              /\ NothingQueued(s)

C31_Witness ==
    \E s \in Sessions :
        /\ pc[s] = "done"
        /\ JustRan(s, "milter")
        /\ local[s].response = SomeOpt(ReplyMilterReject)
        /\ reply[s] = ReplyMilterReject

-----------------------------------------------------------------------------
(* C32: the counter of the remaining notify intervals *)

Deadline(s) ==
    /\ data[s].delivery_by # 0
    /\ "MAIL_BY_RETURN" \notin local[s].message[1].flags

\* C32: when delivery_by is not 0 and MAIL BY RETURN is not set, the counter of
\* the notify of every recipient is the number of notify intervals of its queue,
\* taken as 1 for a queue without intervals, less one, whether the queue expires
\* after a Duration or a Count; in the other two branches the counter is 0.
C32_RemainingIntervals ==
    \A s \in Sessions :
        Built(s) =>
            \A recipient \in BuiltRecipients(s) :
                LET intervals == Len(QueueOf(recipient).notify)
                IN recipient.notify.inner =
                       IF Deadline(s) THEN (IF intervals = 0 THEN 0 ELSE intervals - 1)
                       ELSE 0

C32_Witness ==
    \E s \in Sessions :
        /\ Built(s) /\ Deadline(s)
        /\ \E recipient \in BuiltRecipients(s) :
              /\ QueueOf(recipient).expiry.kind = "Duration"
              /\ Len(QueueOf(recipient).notify) = 2
              /\ recipient.notify.inner = 1
        /\ \E recipient \in BuiltRecipients(s) :
              /\ QueueOf(recipient).expiry.kind = "Count"
              /\ QueueOf(recipient).notify = <<>>
              /\ recipient.notify.inner = 0

-----------------------------------------------------------------------------
(* C33: a negative delivery_by at or beyond the expiry of the queue *)

BeyondExpiry(s, recipient) ==
    /\ Deadline(s)
    /\ data[s].delivery_by < 0
    /\ QueueOf(recipient).expiry.kind = "Duration"
    /\ -data[s].delivery_by >= QueueOf(recipient).expiry.value

\* C33: with a negative delivery_by, no MAIL BY RETURN and a queue that expires
\* after Duration(e) with |delivery_by| >= e, the notify of the recipient is due
\* future_release plus the first notify interval of the queue from now, which is
\* what the subtraction e - |delivery_by| can never give, and its expires is
\* Duration(e).
C33_ClampedToNextNotify ==
    \A s \in Sessions :
        Built(s) =>
            \A recipient \in BuiltRecipients(s) :
                BeyondExpiry(s, recipient) =>
                    /\ recipient.notify.due =
                          data[s].future_release + FirstInterval(QueueOf(recipient))
                    /\ recipient.expires = Duration(QueueOf(recipient).expiry.value)

C33_Witness ==
    \E s \in Sessions :
        /\ Built(s)
        /\ data[s].delivery_by = -10000
        /\ \E recipient \in BuiltRecipients(s) :
              /\ BeyondExpiry(s, recipient)
              /\ QueueOf(recipient).expiry = Duration(10000)
              /\ recipient.notify.due = data[s].future_release + 3600

-----------------------------------------------------------------------------
(* C34: the ARC set *)

ArcSealable(s) ==
    /\ local[s].arc_sealer # NoneV
    /\ local[s].arc_output # NoneOpt
    /\ local[s].dkim_output # <<>>
    /\ local[s].arc_output[1].can_be_sealed

\* the fields of the locals other than the headers and the result of the sealer
OtherLocals(l) == [f \in DOMAIN l \ {"headers", "sealed"} |-> l[f]]

C34_SealStep ==
    \A s \in Sessions :
        pc[s] = "seal" /\ pc'[s] # "seal" =>
            /\ local'[s].sealed = "Ok" <=> local'[s].headers = local[s].headers \o ArcSet
            /\ local'[s].sealed # "Ok" => local'[s].headers = local[s].headers
            /\ local'[s].sealed # NoneV <=> ArcSealable(s)
            /\ pc'[s] = "spam" /\ reply'[s] = reply[s]
            /\ OtherLocals(local'[s]) = OtherLocals(local[s])
            /\ data'[s] = data[s] /\ state'[s] = state[s]
            /\ store' = store /\ queue_id_gen' = queue_id_gen

\* C34: the ARC set is appended to the headers exactly when a sealer is
\* configured, ARC verification gave an output, there is a DKIM result, the chain
\* can be sealed and the sealer succeeds; the sealer is called exactly when the
\* first four hold; when it fails nothing is appended, no reply is made and the
\* function goes on to the spam filter with everything else as it was.
C34_ArcSeal == [][C34_SealStep]_vars

C34_Witness ==
    \E s \in Sessions :
        /\ JustRan(s, "seal")
        /\ local[s].sealed = "Err"
        /\ ArcSealable(s)
        /\ pc[s] = "spam"
        /\ reply[s] = <<>>

-----------------------------------------------------------------------------
(* C35: the DKIM signers *)

\* the signature headers of the first k signers that returned one
RECURSIVE SignaturesUpTo(_, _)
SignaturesUpTo(signed, k) ==
    IF k = 0 THEN <<>>
    ELSE SignaturesUpTo(signed, k - 1)
         \o (IF signed[k].result = "Ok" THEN DkimSignature(signed[k].signer) ELSE <<>>)

C35_SignStep ==
    \A s \in Sessions :
        pc[s] = "sign" /\ pc'[s] # "sign" =>
            LET signed == local'[s].signed
                body == FinalBody(local[s].edited_message, local[s].raw_message)
            IN /\ \E cfg \in core.dkim_sign :
                     [k \in 1..Len(signed) |-> signed[k].signer] =
                         (IF cfg = NoneOpt THEN <<>> ELSE cfg[1])
               /\ \A k \in 1..Len(signed) :
                     /\ signed[k].result # NoneV <=> signed[k].signer \in KnownSigners
                     /\ signed[k].result # NoneV =>
                            signed[k].over =
                                local[s].headers \o SignaturesUpTo(signed, k - 1) \o body
               /\ local'[s].headers =
                      local[s].headers \o SignaturesUpTo(signed, Len(signed))
               /\ pc'[s] = "quota" /\ reply'[s] = reply[s]

\* C35: the signers run in the configured order; each signer that is found is
\* given the headers as they are after the signers before it, followed by the
\* final body, and its signature is appended to the headers when it returns one;
\* a signer that is not found or fails adds nothing, the signers after it still
\* run, and no reply is made.
C35_DkimSigners == [][C35_SignStep]_vars

C35_Witness ==
    \E s \in Sessions :
        /\ JustRan(s, "sign")
        /\ Len(local[s].signed) = 2
        /\ local[s].signed[1].result = "Ok"
        /\ local[s].signed[2].result = "Ok"
        /\ Len(local[s].signed[2].over) > Len(local[s].signed[1].over)

-----------------------------------------------------------------------------
(* C36: the counter of messages and the reply *)

Positive(r) ==
    r[1] \in {"250 2.0.0 Message queued for delivery.", "250 2.0.0 Message queued with id "}

Returns(s) == reply[s] = <<>> /\ reply'[s] # <<>>

C36_ReturnStep ==
    \A s \in Sessions :
        Returns(s) =>
            data'[s].messages_sent =
                data[s].messages_sent + (IF Positive(reply'[s]) THEN 1 ELSE 0)

\* C36: every return of queue_message with a reply that starts with 250 adds
\* one to messages_sent, and every return with a 4xx or 5xx reply leaves
\* messages_sent as it was.
C36_CounterFollowsReply == [][C36_ReturnStep]_vars

-----------------------------------------------------------------------------
(* The DATA command: Session::can_send_data, and the transactions of a session *)

MaxData == 12     \* the DATA commands a session sends

DefaultMaxMessages == 10

ReplyRcptRequired == <<"503 5.5.1 RCPT is required first.", CRLF>>
ReplyTooManyMessages ==
    <<"452 4.4.5 Maximum number of messages per session exceeded.", CRLF>>

\* .unwrap_or(10) of session.data.max_messages
MaxMessages(cfg) == IF cfg = NoneOpt THEN DefaultMaxMessages ELSE cfg[1]

\* BelowLimit with the session allowed one message more
BelowLimitInclusive(messages_sent, cfg) == messages_sent <= MaxMessages(cfg)

\* self.data.messages_sent < max_messages
BelowLimit(messages_sent, cfg) == messages_sent < MaxMessages(cfg)

\* self.write(bytes).await?; Ok(false): the bytes reach the client, or the
\* connection is lost and can_send_data returns the error
Refuse(s, bytes) ==
    \E written \in BOOLEAN :
        /\ gate' = [gate EXCEPT ![s] =
                       [ result |-> IF written THEN "false" ELSE "Err",
                         written |-> IF written THEN bytes ELSE <<>>,
                         commands |-> @.commands + 1 ]]
        /\ pc' = [pc EXCEPT ![s] = IF written THEN "ready" ELSE "closed"]

CanSendData(s) ==
    /\ pc[s] = "ready"
    /\ gate[s].commands < MaxData
    /\ IF data[s].rcpt_to # <<>>
       THEN \E cfg \in EvalIf("max_messages") :
                IF BelowLimit(data[s].messages_sent, cfg)
                THEN /\ gate' = [gate EXCEPT ![s] =
                                    [ result |-> "true", written |-> <<>>,
                                      commands |-> @.commands + 1 ]]
                     /\ pc' = [pc EXCEPT ![s] = "data"]
                ELSE Refuse(s, ReplyTooManyMessages)
       ELSE Refuse(s, ReplyRcptRequired)
    /\ UNCHANGED <<handoff_vars, manager_vars, core, queue_id_gen, store, quota_calls,
                   report_queue, analyzed, data, state, reply, trace, local>>

\* MAIL FROM and RCPT TO: the client names the recipients of a transaction
Envelope(s) ==
    /\ pc[s] = "ready"
    /\ gate[s].commands < MaxData
    /\ data[s].rcpt_to = <<>>
    /\ \E rcpt_to \in RcptLists : data' = [data EXCEPT ![s].rcpt_to = rcpt_to]
    /\ UNCHANGED <<handoff_vars, manager_vars, gate, core, queue_id_gen, store, quota_calls,
                   report_queue, analyzed, state, pc, reply, trace, local>>

\* can_send_data returned true: the session reads the message up to the final
\* dot and calls queue_message
ReceiveMessage(s) ==
    /\ pc[s] = "data"
    /\ data' = [data EXCEPT ![s].message = MsgPlain]
    /\ state' = [state EXCEPT ![s] = <<"Data">>]
    /\ pc' = [pc EXCEPT ![s] = "parse"]
    /\ UNCHANGED <<handoff_vars, manager_vars, gate, core, queue_id_gen, store, quota_calls,
                   report_queue, analyzed, reply, trace, local>>

\* queue_message returned: the reply is written and the session is reset for
\* the next transaction, which keeps the count of the messages sent
EndTransaction(s) ==
    /\ pc[s] = "done"
    /\ data' = [data EXCEPT ![s].message = <<>>, ![s].rcpt_to = <<>>,
                            ![s].mail_from = MailFrom]
    /\ state' = [state EXCEPT ![s] = <<"Request">>]
    /\ pc' = [pc EXCEPT ![s] = "ready"]
    /\ reply' = [reply EXCEPT ![s] = <<>>]
    /\ trace' = [trace EXCEPT ![s] = <<>>]
    /\ local' = [local EXCEPT ![s] = LocalInit]
    /\ UNCHANGED <<handoff_vars, manager_vars, gate, core, queue_id_gen, store, quota_calls,
                   report_queue, analyzed>>

\* the store and the quota answer every transaction of the session alike
SteadyEnvironment == [ is_report |-> FALSE, has_quota |-> TRUE, queued |-> TRUE ]

GateData(environments) ==
    { [d EXCEPT !.message = <<>>, !.rcpt_to = <<>>, !.environment = environment] :
        d \in SessionData({MsgPlain}, {NoneV}, {FALSE}, {FALSE}, {NoneOpt}),
        environment \in environments }

\* One session sends DATA commands, with the default limit and a store that
\* accepts every message, or with a limit of one or two messages and a store
\* that may refuse any of them.
InitGate ==
    \/ InitAt({1}, CorePlain, GateData({SomeOpt(SteadyEnvironment)}), "ready")
    \/ \E max \in 1..2 :
           InitAt({1}, [CorePlain EXCEPT !.max_messages = {SomeOpt(max)}],
                  GateData({NoneOpt}), "ready")

NextGate ==
    \/ Next
    \/ \E s \in Sessions : CanSendData(s)
    \/ \E s \in Sessions : Envelope(s)
    \/ \E s \in Sessions : ReceiveMessage(s)
    \/ \E s \in Sessions : EndTransaction(s)

SpecGate == InitGate /\ [][NextGate]_vars

-----------------------------------------------------------------------------
(* C37 *)

MessageLimits == {MaxMessages(cfg) : cfg \in core.max_messages}

\* can_send_data has just returned in session s
Gated(s) == gate'[s].commands = gate[s].commands + 1

C37_GateStep ==
    \A s \in Sessions :
        Gated(s) =>
            /\ data'[s] = data[s]
            /\ state'[s] = state[s]
            /\ IF gate'[s].result = "true"
               THEN /\ data[s].rcpt_to # <<>>
                    /\ \A max \in MessageLimits : data[s].messages_sent < max
                    /\ gate'[s].written = <<>>
               ELSE /\ gate'[s].result \in {"false", "Err"}
                    /\ \/ data[s].rcpt_to = <<>>
                       \/ \A max \in MessageLimits : data[s].messages_sent >= max
                    /\ gate'[s].result = "false" =>
                           gate'[s].written = IF data[s].rcpt_to = <<>>
                                              THEN ReplyRcptRequired
                                              ELSE ReplyTooManyMessages

C37_Inv ==
    \A s \in Sessions :
        \A max \in MessageLimits : Cardinality(Persisted(s)) <= max

-----------------------------------------------------------------------------
(* C38 *)

\* the run of session s has written its trace headers
ReachedTrace(s) == \E i \in 1..Len(trace[s]) : trace[s][i] = "trace"

EarlyStages == {"parse", "loop", "dkim", "arc", "dmarc", "report"}

\* C38: a run that returns at parse, loop check, DKIM, ARC, DMARC or report
\* absorption has not advanced the queue id generator; the generator is
\* advanced exactly once by every run that reaches the trace headers, whatever
\* happens to the run afterwards, and by nothing else.
C38_GeneratorAdvance ==
    /\ queue_id_gen = QueueIdSeed + Cardinality({s \in Sessions : ReachedTrace(s)})
    /\ \A s \in Sessions :
           /\ pc[s] = "done" /\ Last(trace[s]) \in EarlyStages => ~ReachedTrace(s)
           /\ pc[s] = "done" /\ Last(trace[s]) \notin EarlyStages => ReachedTrace(s)
           /\ ReachedTrace(s) =>
                  /\ local[s].message_id # NoneOpt
                  /\ local[s].message_id[1] \in QueueIdSeed..(queue_id_gen - 1)

\* a run took an id and was refused afterwards: the id is in no queue
C38_Witness ==
    \E s \in Sessions :
        /\ pc[s] = "done"
        /\ ReachedTrace(s)
        /\ Last(trace[s]) \in {"spam", "milter", "hook", "script", "quota", "persist"}
        /\ ~Accepted(s)
        /\ queue_id_gen = QueueIdSeed + 1
        /\ store = {}

-----------------------------------------------------------------------------
(* C39 *)

BeforeBuild == {"parse", "loop", "dkim", "arc", "dmarc", "report", "trace", "seal",
                "spam", "milter", "hook", "apply", "script"}

\* the run of session s has built its message
ReachedBuild(s) == \E i \in 1..Len(trace[s]) : trace[s][i] = "headers"

C39_Inv ==
    \A s \in Sessions :
        /\ pc[s] = "done" => data[s].message = <<>>
        /\ ReachedBuild(s) => data[s].rcpt_to = <<>>
        /\ pc[s] = "done" /\ Last(trace[s]) \in {"quota", "persist"} => ReachedBuild(s)

C39_Step ==
    \A s \in Sessions :
        pc[s] \in BeforeBuild => data'[s].rcpt_to = data[s].rcpt_to

\* C39: whenever queue_message has returned, the buffer of the received
\* message is empty.  No stage up to and including the script changes the
\* recipient list of the session, so a run that returns there leaves it as it
\* was; once the message is built the list is empty, and it is still empty
\* when the run ends with 452 (quota) or 451 (the store fails).
C39_Buffers == []C39_Inv /\ [][C39_Step]_vars

\* a run refused for quota after the recipients were taken
C39_Witness ==
    \E s \in Sessions :
        /\ pc[s] = "done"
        /\ reply[s] = ReplyFull
        /\ local[s].message # NoneOpt
        /\ data[s].rcpt_to = <<>>
        /\ data[s].message = <<>>

-----------------------------------------------------------------------------
(* C40 *)

\* the body a run would sign, count and store, given its local variables
BodyOf(l) == IF l.edited_message # NoneOpt THEN l.edited_message[1] ELSE l.raw_message

EndsWith(bytes, suffix) ==
    /\ Len(bytes) >= Len(suffix)
    /\ SubSeq(bytes, Len(bytes) - Len(suffix) + 1, Len(bytes)) = suffix

C40_BodyStep ==
    \A s \in Sessions :
        /\ pc[s] = "apply" =>
              IF local[s].modifications = <<>>
              THEN BodyOf(local'[s]) = local[s].raw_message
              ELSE SomeOpt(BodyOf(local'[s])) =
                       ApplyMilterModifications(local[s].modifications, local[s].raw_message)
        /\ pc[s] = "script" /\ pc'[s] = "headers" =>
              BodyOf(local'[s]) = IF local'[s].script_result = "Replace"
                                  THEN BodyScript
                                  ELSE BodyOf(local[s])
        /\ pc[s] \in {"headers", "sign", "quota", "persist"} =>
              BodyOf(local'[s]) = BodyOf(local[s])
        /\ pc[s] = "sign" =>
              \A k \in 1..Len(local'[s].signed) :
                  local'[s].signed[k].result # NoneV =>
                      EndsWith(local'[s].signed[k].over, BodyOf(local[s]))
        /\ pc[s] = "quota" =>
              local'[s].message[1].size =
                  ByteLen(BodyOf(local[s])) + ByteLen(local[s].headers)
        /\ pc[s] = "persist" /\ state'[s][1] = "Accepted" =>
              /\ store' # store
              /\ \A m \in store' \ store : m.raw_message = BodyOf(local[s])

====
